---- MODULE Spec2Model ----
(***************************************************************************)
(* Daemon control plane of the plakar scheduler (package scheduler of      *)
(* subcommands): the process-wide SchedulerContext singleton, its mutex,   *)
(* and the per-connection handlers that serve start / stop / configure /   *)
(* terminate requests concurrently.  Every statement of a handler that     *)
(* reads or writes shared state is one step of the connection's program    *)
(* counter, so the mutex is what makes the handlers atomic, not the model. *)
(***************************************************************************)
EXTENDS Integers, Sequences, FiniteSets, TLC

\* ---- bounds of the model ------------------------------------------------
MaxConns == 2          \* connections handled at the same time
MaxRequests == 3       \* connections accepted during one daemon run
NumConfigs == 2        \* distinct well-formed configuration documents
MaxTasks == 2          \* tasks configured in the job whose loops are followed
MaxQueue == 1          \* job-ready events waiting on runq at the same time
MaxDays == 2           \* calendar days the clock runs through
MaxPlans == 2          \* calls of ScheduleForDate followed when it is taken on its own
MaxInterval == 2       \* longest task.Interval, in instants
MaxSequence == 4       \* connections accepted when the clients take turns
NumClients == 2        \* requests for /events served by the live UI
MaxBroadcasts == 2     \* calls of broadcast on the hub

\* ---- the calendar and the service's configuration -------------------------
DayLen == 2            \* instants that make one calendar day, the first being its midnight
NumJobs == 2           \* jobs of the service's configuration
MaxSchedules == 2      \* schedules of the configuration, over all its jobs

Conns == 1..MaxConns
Clients == 1..NumClients   \* the /events handlers, each with the channel it makes
Nil == 0               \* a nil pointer (context or configuration)

\* ---- schedulerState values ------------------------------------------------
AGENT_SCHEDULER_STOPPED == 0
AGENT_SCHEDULER_RUNNING == 1

\* request payloads: 0 is a byte string that is not a configuration document,
\* 1..NumConfigs are the serialized forms of the configurations 1..NumConfigs
Payloads == 0..NumConfigs
RequestTypes == {"start", "stop", "configure", "terminate", "bogus"}

ErrNoConfig == "agent scheduler does not have a configuration"
ErrAlreadyRunning == "agent scheduler already running"
ErrNotRunning == "agent scheduler not running"
ErrUnknown == "unknown command: bogus"
ErrParse == "failed to parse configuration"
ErrStop == "failed to signal the daemon"

NoResponse == [ExitCode |-> -1, Err |-> ""]
NoRequest == [Type |-> "", Payload |-> 0]

\* the task kinds, one Task Runner Loop function each
Kinds == {"backup", "check", "restore", "sync", "maintenance"}

\* task.Retention: zero, or some positive duration
Retentions == {0, 1}

\* task.Direction of a sync task; "sideways" stands for any other value
SyncDirectionTo == "to"
SyncDirectionFrom == "from"
SyncDirectionWith == "with"
Directions == {SyncDirectionTo, SyncDirectionFrom, SyncDirectionWith, "sideways"}

NoTask == [Interval |-> -1, Retention |-> -1, Direction |-> ""]

\* the configurations a task of kind k can have.  Its Interval is zero, a timer
\* that is ready as soon as it is made, where the clock is not followed; the
\* jobs whose intervals are followed get theirs from Every.
TaskConfigs(k) ==
    IF k \in {"backup", "maintenance"}
    THEN {[Interval |-> 0, Retention |-> r, Direction |-> ""] : r \in Retentions}
    ELSE IF k = "sync"
    THEN {[Interval |-> 0, Retention |-> 0, Direction |-> d] : d \in Directions}
    ELSE {[Interval |-> 0, Retention |-> 0, Direction |-> ""]}

\* a handle that was never opened, and the empty record of a tick
NoHandle == [opened |-> 0, closed |-> 0]
NoOutcome == [load |-> "", logged |-> FALSE, op |-> "", purge |-> ""]

\* time.Time values: the instants of the days the clock runs through, from
\* the first midnight on
MaxTime == DayLen * MaxDays - 1
Times == 0..MaxTime

\* a time.Time that was never set: earlier than every instant and every cutoff
NoTime == -2

\* the names of s.config.Jobs, and what a Schedule is once its date mask is
\* applied to a day: the instants of the day it selects
JobNames == 1..NumJobs

\* a ScheduledJob: the job, the time it is scheduled for, and the rank of its
\* ScheduleAt call among those made on the job-ready engine
NoEvent == [job |-> 0, scheduled |-> NoTime, rank |-> 0]
Masks == SUBSET (0..(DayLen - 1))

\* make(chan sseMsg, 16)
ChanCap == 16

\* broadcast when nobody is in it: its position, the channel the range has
\* produced, the channels the range has produced so far, and the calls made
NoBroadcast == [pc |-> "idle", ch |-> 0, seen |-> {}, calls |-> 0]

\* values of the error ListenAndServe returns to Execute
Serving == "serving"                 \* the accept loop has not returned
ErrCanceled == "context canceled"    \* ctx.Err() of a cancelled context
ErrAccept == "accept failed"         \* the error listener.Accept() returned

VARIABLES
    schedulerCtx,      \* SchedulerContext.schedulerCtx: Nil or a context id
    schedulerConfig,   \* SchedulerContext.schedulerConfig: Nil or a configuration
    schedulerState,    \* SchedulerContext.schedulerState
    mtx,               \* SchedulerContext.mtx: 0 when free, else the holder
    nextCtx,           \* number of contexts derived from agentCtx so far
    cancelled,         \* contexts on which Cancel() has been called
    launched,          \* Scheduler Services started with `go ... .Run()`, in order
    exited,            \* indices of launched services whose loop has ended
    configured,        \* history: some configure request has succeeded
    agentCancelled,    \* the daemon's own context (agentCtx) is cancelled
    listenerClosed,    \* the supervisory goroutine has closed the listener
    panicked,          \* a handler dereferenced a nil context
    serveErr,          \* what ListenAndServe returned, Serving while it still accepts
    inflight,          \* ListenAndServe's inflight counter
    nextID,            \* ListenAndServe's nextID counter
    pc,                \* per connection: position of its handler
    request,           \* per connection: the decoded Request
    response,          \* per connection: the Response being built
    schedConfig,       \* per connection: configureTasks' local schedConfig
    pre,               \* per connection: the singleton when the mutex was taken
    post,              \* per connection: the singleton when the handler returned
    acts,              \* per connection: context operations done by the handler
    taskset,           \* per task kind: the task's configuration, NoTask if the job has none
    lpc,               \* per task kind: position of its Task Runner Loop
    store,             \* per task kind: opens and closes of the storage handle this tick
    repo,              \* per task kind: opens and closes of the repository handle this tick
    report,            \* per task kind: the calls made on this tick's Report, in order
    outcome,           \* per task kind: what the steps of this tick returned
    timer,             \* per task kind: when the channel of time.After becomes ready, NoTime without a timer
    ticked,            \* per task kind: when the tick being processed was taken, NoTime between ticks
    svc,               \* position of the goroutine of SchedulerService.Run
    started,           \* what Start() returned for each engine: "" before the call, "ok" or "error"
    stops,             \* Stop() calls made on each engine: 0, 1, or 2 for more
    scheduleq,         \* number of rollover ticks delivered on scheduleq and not yet received
    runq,              \* number of job-ready events delivered on runq and not yet received
    now,               \* what time.Now() returns
    snapshot,          \* per task kind: timestamp of the snapshot DoBackup made this tick
    before,            \* per task kind: the LocateOptions.Before rm was run with this tick
    config,            \* s.config.Jobs of the service: per job name its Schedules
    rollover,          \* rollover engine: the times of its pending events
    ready,             \* job-ready engine: its pending ScheduledJobs, in the order armed
    ticks,             \* the times waiting on scheduleq
    jobs,              \* the ScheduledJobs waiting on runq
    planned,           \* history: the dates ScheduleForDate was called with, in order
    ran,               \* history: the ScheduledJob whose Execute was called last
    armed,             \* history: number of ScheduleAt calls on the job-ready engine
    hubpc,             \* position of the goroutine of sseHub.run: "none", "run" or "returned"
    hubClosed,         \* h.closed has been closed
    clients,           \* h.clients: the registered channels
    closes,            \* per channel: the calls of close() on it
    queued,            \* per channel: the messages in its buffer
    hpc,               \* per /events handler: its position
    gone,              \* per /events handler: r.Context().Done() is closed
    bcast,             \* the goroutine in sseHub.broadcast
    crashed            \* the process has panicked on a send on a closed channel

vars == <<schedulerCtx, schedulerConfig, schedulerState, mtx, nextCtx, cancelled,
          launched, exited, configured, agentCancelled, listenerClosed, panicked,
          serveErr, inflight, nextID, pc, request, response, schedConfig, pre, post, acts,
          taskset, lpc, store, repo, report, outcome, timer, ticked, svc, stops, scheduleq, runq,
          now, snapshot, before, config, started, rollover, ready, ticks, jobs, planned, ran,
          armed, hubpc, hubClosed, clients, closes, queued, hpc, gone, bcast, crashed>>

shared == <<schedulerCtx, schedulerConfig, schedulerState, nextCtx, cancelled, launched,
            exited, configured>>
daemon == <<agentCancelled, listenerClosed, panicked, serveErr>>
counters == <<inflight, nextID>>
handlers == <<pc, request, response, schedConfig, pre, post, acts>>
runners == <<taskset, lpc, store, repo, report, outcome, snapshot, before, timer, ticked>>
timing == <<timer, ticked>>
calendar == <<config, started, rollover, ready, ticks, jobs, planned, ran, armed>>
purging == <<snapshot, before>>
web == <<hubpc, hubClosed, clients, closes, queued, hpc, gone, bcast, crashed>>
service == <<svc, stops, scheduleq, runq, now, calendar, web>>

\* the three fields of the singleton that requests read and write
Singleton == [ctx |-> schedulerCtx, config |-> schedulerConfig, state |-> schedulerState]
NoSnapshot == [ctx |-> -1, config |-> -1, state |-> -1]

\* schedulerState & AGENT_SCHEDULER_RUNNING != 0
IsRunning(state) == (state % 2) = 1

\* scheduler.ParseConfigBytes: a well-formed document yields its configuration,
\* anything else an error
ParseConfigBytes(bytes) ==
    IF bytes \in 1..NumConfigs
    THEN [cfg |-> bytes, err |-> FALSE]
    ELSE [cfg |-> Nil, err |-> TRUE]

\* ctx.Done() of a context derived from agentCtx by NewAppContextFrom: closed
\* by its own Cancel() or by the cancellation of the parent
Done(ctx) == ctx \in cancelled \/ agentCancelled

\* StartHTTP has not been called: there is no hub and no live UI
HubAbsent ==
    /\ hubpc = "none"
    /\ hubClosed = FALSE
    /\ clients = {}
    /\ closes = [h \in Clients |-> 0]
    /\ queued = [h \in Clients |-> 0]
    /\ hpc = [h \in Clients |-> "none"]
    /\ gone = [h \in Clients |-> FALSE]
    /\ bcast = NoBroadcast
    /\ crashed = FALSE

Init ==
    /\ schedulerCtx = Nil
    /\ schedulerConfig = Nil
    /\ schedulerState = AGENT_SCHEDULER_STOPPED
    /\ mtx = 0
    /\ nextCtx = 0
    /\ cancelled = {}
    /\ launched = <<>>
    /\ exited = {}
    /\ configured = FALSE
    /\ agentCancelled = FALSE
    /\ listenerClosed = FALSE
    /\ panicked = FALSE
    /\ serveErr = Serving
    /\ inflight = 0
    /\ nextID = 0
    /\ pc = [c \in Conns |-> "idle"]
    /\ request = [c \in Conns |-> NoRequest]
    /\ response = [c \in Conns |-> NoResponse]
    /\ schedConfig = [c \in Conns |-> Nil]
    /\ pre = [c \in Conns |-> NoSnapshot]
    /\ post = [c \in Conns |-> NoSnapshot]
    /\ acts = [c \in Conns |-> <<>>]
    /\ taskset = [k \in Kinds |-> NoTask]
    /\ lpc = [k \in Kinds |-> "none"]
    /\ store = [k \in Kinds |-> NoHandle]
    /\ repo = [k \in Kinds |-> NoHandle]
    /\ report = [k \in Kinds |-> <<>>]
    /\ outcome = [k \in Kinds |-> NoOutcome]
    /\ timer = [k \in Kinds |-> NoTime]
    /\ ticked = [k \in Kinds |-> NoTime]
    /\ svc = "none"
    /\ stops = [roll |-> 0, job |-> 0]
    /\ scheduleq = 0
    /\ runq = 0
    /\ now = 0
    /\ snapshot = [k \in Kinds |-> NoTime]
    /\ before = [k \in Kinds |-> NoTime]
    /\ config = [j \in JobNames |-> <<>>]
    /\ started = [roll |-> "", job |-> ""]
    /\ rollover = {}
    /\ ready = <<>>
    /\ ticks = <<>>
    /\ jobs = <<>>
    /\ planned = <<>>
    /\ ran = NoEvent
    /\ armed = 0
    /\ HubAbsent

\* ---- ListenAndServe ------------------------------------------------------

\* listener.Accept() returns a connection; its handler goroutine starts.  A
\* connection has no identity beyond its handler, so the new handler takes the
\* lowest free slot.
Accept(c) ==
    /\ ~listenerClosed
    /\ pc[c] = "idle"
    /\ \A k \in Conns : k < c => pc[k] # "idle"
    /\ nextID < MaxRequests
    /\ inflight' = inflight + 1
    /\ nextID' = nextID + 1
    /\ pc' = [pc EXCEPT ![c] = "readvers"]
    /\ UNCHANGED <<shared, mtx, daemon, runners, service, request, response, schedConfig, pre, post, acts>>

\* go func() { <-ctx.Done(); cancelled = true; listener.Close() }()
CloseListener ==
    /\ ~panicked
    /\ serveErr = Serving
    /\ agentCancelled
    /\ ~listenerClosed
    /\ listenerClosed' = TRUE
    /\ UNCHANGED <<shared, mtx, agentCancelled, panicked, serveErr, runners, service,
                   counters, pc, request, response, schedConfig, pre, post, acts>>

\* listener.Accept() returns an error and the accept loop returns: ctx.Err()
\* if it reads the flag `cancelled` as set, the accept error otherwise.  The
\* supervisory goroutine writes the flag without synchronisation before it
\* closes the listener, so once the daemon context is cancelled the loop may
\* read either value.  Execute returns next and the process ends, handlers
\* included.
AcceptFails ==
    /\ ~panicked
    /\ serveErr = Serving
    /\ \E flag \in IF listenerClosed THEN BOOLEAN
                   ELSE IF agentCancelled THEN BOOLEAN ELSE {FALSE} :
          serveErr' = IF flag THEN ErrCanceled ELSE ErrAccept
    /\ pc' = [k \in Conns |-> "exit"]
    /\ request' = [k \in Conns |-> NoRequest]
    /\ response' = [k \in Conns |-> NoResponse]
    /\ schedConfig' = [k \in Conns |-> Nil]
    /\ pre' = [k \in Conns |-> NoSnapshot]
    /\ post' = [k \in Conns |-> NoSnapshot]
    /\ acts' = [k \in Conns |-> <<>>]
    /\ UNCHANGED <<shared, mtx, agentCancelled, listenerClosed, panicked, runners, service, counters>>

\* Scheduler.Execute: `if err := cmd.ListenAndServe(ctx); err != nil { return 1, err }`
\* and `return 0, nil` after it
Execute(err) == IF err # "" THEN 1 ELSE 0

\* the exit status of the daemon, -1 while it runs
ExitStatus == IF serveErr = Serving THEN -1 ELSE Execute(serveErr)

\* ---- handleClient --------------------------------------------------------

\* a return of handleClient: deferred conn.Close() and inflight.Add(-1); the
\* goroutine and its locals are gone
Return(c) ==
    /\ pc' = [pc EXCEPT ![c] = "idle"]
    /\ inflight' = inflight - 1
    /\ request' = [request EXCEPT ![c] = NoRequest]
    /\ response' = [response EXCEPT ![c] = NoResponse]
    /\ schedConfig' = [schedConfig EXCEPT ![c] = Nil]
    /\ pre' = [pre EXCEPT ![c] = NoSnapshot]
    /\ post' = [post EXCEPT ![c] = NoSnapshot]
    /\ acts' = [acts EXCEPT ![c] = <<>>]
    /\ UNCHANGED nextID

\* decoder.Decode(&clientvers)
ReadVersion(c) ==
    /\ pc[c] = "readvers"
    /\ \E ok \in BOOLEAN :
          IF ok
          THEN /\ pc' = [pc EXCEPT ![c] = "writevers"]
               /\ UNCHANGED <<counters, request, response, schedConfig, pre, post, acts>>
          ELSE Return(c)
    /\ UNCHANGED <<shared, mtx, daemon, runners, service>>

\* encoder.Encode(ourvers)
WriteVersion(c) ==
    /\ pc[c] = "writevers"
    /\ \E ok \in BOOLEAN :
          IF ok
          THEN /\ pc' = [pc EXCEPT ![c] = "readreq"]
               /\ UNCHANGED <<counters, request, response, schedConfig, pre, post, acts>>
          ELSE Return(c)
    /\ UNCHANGED <<shared, mtx, daemon, runners, service>>

\* the entry point `switch request.Type` selects
Handler(type) ==
    IF type = "start" THEN "start_lock"
    ELSE IF type = "stop" THEN "stop_lock"
    ELSE IF type = "terminate" THEN "terminate"
    ELSE IF type = "configure" THEN "cfg_parse"
    ELSE "respond"

\* mutation: a request that cannot be decoded is answered with an error Response
ReadRequestAnswersUndecoded(c) ==
    /\ pc[c] = "readreq"
    /\ \/ \E t \in RequestTypes, p \in Payloads :
             /\ t # "configure" => p = 0
             /\ request' = [request EXCEPT ![c] = [Type |-> t, Payload |-> p]]
             /\ pc' = [pc EXCEPT ![c] = Handler(t)]
             /\ response' = [response EXCEPT ![c] =
                               IF Handler(t) = "respond"
                               THEN [ExitCode |-> 1, Err |-> ErrUnknown]
                               ELSE NoResponse]
       \/ /\ pc' = [pc EXCEPT ![c] = "respond"]
          /\ response' = [response EXCEPT ![c] = [ExitCode |-> 1, Err |-> ErrUnknown]]
          /\ UNCHANGED request
    /\ UNCHANGED <<shared, mtx, daemon, runners, service, counters, schedConfig, pre, post, acts>>

\* decoder.Decode(&request) and the switch on request.Type: a known type
\* enters its handler, the default case builds the error Response
ReadRequest(c) ==
    /\ pc[c] = "readreq"
    /\ \/ \E t \in RequestTypes, p \in Payloads :
             /\ t # "configure" => p = 0
             /\ request' = [request EXCEPT ![c] = [Type |-> t, Payload |-> p]]
             /\ pc' = [pc EXCEPT ![c] = Handler(t)]
             /\ response' = [response EXCEPT ![c] =
                               IF Handler(t) = "respond"
                               THEN [ExitCode |-> 1, Err |-> ErrUnknown]
                               ELSE NoResponse]
             /\ UNCHANGED <<counters, schedConfig, pre, post, acts>>
       \/ Return(c)
    /\ UNCHANGED <<shared, mtx, daemon, runners, service>>

\* encoder.Encode(response), then the handler returns
WriteResponse(c) ==
    /\ pc[c] = "respond"
    /\ Return(c)
    /\ UNCHANGED <<shared, mtx, daemon, runners, service>>

\* ---- the singleton's mutex ----------------------------------------------

\* mutation: Lock that does not wait for the holder to unlock
LockNoExclusion(c) ==
    /\ mtx' = c
    /\ pre' = [pre EXCEPT ![c] = Singleton]

\* schedulerContextSingleton.mtx.Lock(): blocks while another handler holds it;
\* the handler remembers the singleton it found
Lock(c) ==
    /\ mtx = 0
    /\ mtx' = c
    /\ pre' = [pre EXCEPT ![c] = Singleton]

\* a return of startTasks / stopTasks / configureTasks: the deferred
\* mtx.Unlock() runs and handleClient fills the Response from (int, error)
Finish(c, err) ==
    /\ mtx' = 0
    /\ response' = [response EXCEPT ![c] =
                      [ExitCode |-> IF err = "" THEN 0 ELSE 1, Err |-> err]]
    /\ post' = [post EXCEPT ![c] = [ctx |-> schedulerCtx', config |-> schedulerConfig',
                                    state |-> schedulerState']]
    /\ pc' = [pc EXCEPT ![c] = "respond"]

\* history: one entry per write a handler makes to the singleton or to a context
Act(o, x, g) == [op |-> o, ctx |-> x, cfg |-> g]

\* ---- startTasks ----------------------------------------------------------

StartLock(c) ==
    /\ pc[c] = "start_lock"
    /\ Lock(c)
    /\ pc' = [pc EXCEPT ![c] = "start_config"]
    /\ UNCHANGED <<shared, daemon, runners, service, counters, request, response, schedConfig, post, acts>>

\* mutation: startTasks without the nil-configuration test
StartCheckConfigSkipped(c) ==
    /\ pc[c] = "start_config"
    /\ pc' = [pc EXCEPT ![c] = "start_state"]
    /\ UNCHANGED <<shared, mtx, daemon, runners, service, counters, request, response, schedConfig,
                   pre, post, acts>>

\* if schedulerConfig == nil { return 1, "...does not have a configuration" }
StartCheckConfig(c) ==
    /\ pc[c] = "start_config"
    /\ UNCHANGED <<shared, daemon, runners, service, counters, request, schedConfig, pre, acts>>
    /\ IF schedulerConfig = Nil
       THEN Finish(c, ErrNoConfig)
       ELSE pc' = [pc EXCEPT ![c] = "start_state"] /\ UNCHANGED <<mtx, response, post>>

\* mutation: startTasks without the already-running test
StartCheckStateSkipped(c) ==
    /\ pc[c] = "start_state"
    /\ pc' = [pc EXCEPT ![c] = "start_newctx"]
    /\ UNCHANGED <<shared, mtx, daemon, runners, service, counters, request, response, schedConfig,
                   pre, post, acts>>

\* if schedulerState&AGENT_SCHEDULER_RUNNING != 0 { return 1, "...already running" }
StartCheckState(c) ==
    /\ pc[c] = "start_state"
    /\ UNCHANGED <<shared, daemon, runners, service, counters, request, schedConfig, pre, acts>>
    /\ IF IsRunning(schedulerState)
       THEN Finish(c, ErrAlreadyRunning)
       ELSE pc' = [pc EXCEPT ![c] = "start_newctx"] /\ UNCHANGED <<mtx, response, post>>

\* schedulerCtx = appcontext.NewAppContextFrom(agentCtx)
StartNewCtx(c) ==
    /\ pc[c] = "start_newctx"
    /\ nextCtx' = nextCtx + 1
    /\ schedulerCtx' = nextCtx + 1
    /\ acts' = [acts EXCEPT ![c] = Append(@, Act("new", nextCtx + 1, Nil))]
    /\ pc' = [pc EXCEPT ![c] = "start_go"]
    /\ UNCHANGED <<schedulerConfig, schedulerState, cancelled, launched, exited,
                   configured, mtx, daemon, runners, service,
                   counters, request, response, schedConfig, pre, post>>

\* mutation: startTasks that never starts the service goroutine
StartGoForgotten(c) ==
    /\ pc[c] = "start_go"
    /\ pc' = [pc EXCEPT ![c] = "start_set"]
    /\ UNCHANGED <<shared, mtx, daemon, runners, service, counters, request, response, schedConfig,
                   pre, post, acts>>

\* go scheduler.NewScheduler(schedulerCtx, schedulerConfig).Run()
StartGo(c) ==
    /\ pc[c] = "start_go"
    /\ launched' = Append(launched, [ctx |-> schedulerCtx, cfg |-> schedulerConfig])
    /\ acts' = [acts EXCEPT ![c] = Append(@, Act("go", schedulerCtx, schedulerConfig))]
    /\ pc' = [pc EXCEPT ![c] = "start_set"]
    /\ UNCHANGED <<schedulerCtx, schedulerConfig, schedulerState, nextCtx, cancelled,
                   exited, configured, mtx, daemon, runners, service, counters, request, response, schedConfig, pre, post>>

\* schedulerState = AGENT_SCHEDULER_RUNNING; return 0, nil
StartSetState(c) ==
    /\ pc[c] = "start_set"
    /\ schedulerState' = AGENT_SCHEDULER_RUNNING
    /\ acts' = [acts EXCEPT ![c] = Append(@, Act("running", Nil, Nil))]
    /\ UNCHANGED <<schedulerCtx, schedulerConfig, nextCtx, cancelled, launched,
                   exited, configured>>
    /\ Finish(c, "")
    /\ UNCHANGED <<daemon, runners, service, counters, request, schedConfig, pre>>

\* ---- stopTasks -----------------------------------------------------------

StopLock(c) ==
    /\ pc[c] = "stop_lock"
    /\ Lock(c)
    /\ pc' = [pc EXCEPT ![c] = "stop_state"]
    /\ UNCHANGED <<shared, daemon, runners, service, counters, request, response, schedConfig, post, acts>>

\* mutation: stopTasks that reports success when nothing is running
StopCheckStateSilent(c) ==
    /\ pc[c] = "stop_state"
    /\ UNCHANGED <<shared, daemon, runners, service, counters, request, schedConfig, pre, acts>>
    /\ IF ~IsRunning(schedulerState)
       THEN Finish(c, "")
       ELSE pc' = [pc EXCEPT ![c] = "stop_cancel"] /\ UNCHANGED <<mtx, response, post>>

\* if schedulerState&AGENT_SCHEDULER_RUNNING == 0 { return 1, "...not running" }
StopCheckState(c) ==
    /\ pc[c] = "stop_state"
    /\ UNCHANGED <<shared, daemon, runners, service, counters, request, schedConfig, pre, acts>>
    /\ IF ~IsRunning(schedulerState)
       THEN Finish(c, ErrNotRunning)
       ELSE pc' = [pc EXCEPT ![c] = "stop_cancel"] /\ UNCHANGED <<mtx, response, post>>

\* schedulerCtx.Cancel(): a nil schedulerCtx panics, which ends the process and
\* every handler with it
StopCancel(c) ==
    /\ pc[c] = "stop_cancel"
    /\ IF schedulerCtx = Nil
       THEN /\ panicked' = TRUE
            /\ pc' = [k \in Conns |-> "panic"]
            /\ UNCHANGED <<cancelled, acts>>
       ELSE /\ cancelled' = cancelled \cup {schedulerCtx}
            /\ acts' = [acts EXCEPT ![c] = Append(@, Act("cancel", schedulerCtx, Nil))]
            /\ pc' = [pc EXCEPT ![c] = "stop_set"]
            /\ UNCHANGED panicked
    /\ UNCHANGED <<schedulerCtx, schedulerConfig, schedulerState, nextCtx, launched,
                   exited, configured, mtx,
                   agentCancelled, listenerClosed, serveErr, runners, service,
                   counters, request, response, schedConfig, pre, post>>

\* mutation: stopTasks that forgets the configuration with the state
StopSetStateDropsConfig(c) ==
    /\ pc[c] = "stop_set"
    /\ schedulerState' = AGENT_SCHEDULER_STOPPED
    /\ schedulerConfig' = Nil
    /\ acts' = [acts EXCEPT ![c] = Append(@, Act("stopped", Nil, Nil))]
    /\ pc' = [pc EXCEPT ![c] = "stop_clear"]
    /\ UNCHANGED <<schedulerCtx, nextCtx, cancelled, launched,
                   exited, configured, mtx,
                   daemon, runners, service, counters, request, response, schedConfig, pre, post>>

\* schedulerState = AGENT_SCHEDULER_STOPPED
StopSetState(c) ==
    /\ pc[c] = "stop_set"
    /\ schedulerState' = AGENT_SCHEDULER_STOPPED
    /\ acts' = [acts EXCEPT ![c] = Append(@, Act("stopped", Nil, Nil))]
    /\ pc' = [pc EXCEPT ![c] = "stop_clear"]
    /\ UNCHANGED <<schedulerCtx, schedulerConfig, nextCtx, cancelled, launched,
                   exited, configured, mtx,
                   daemon, runners, service, counters, request, response, schedConfig, pre, post>>

\* mutation: stopTasks that returns only once the cancelled service has ended
StopClearCtxJoins(c) ==
    /\ pc[c] = "stop_clear"
    /\ \A i \in DOMAIN launched : launched[i].ctx = schedulerCtx => i \in exited
    /\ schedulerCtx' = Nil
    /\ acts' = [acts EXCEPT ![c] = Append(@, Act("clear", Nil, Nil))]
    /\ UNCHANGED <<schedulerConfig, schedulerState, nextCtx, cancelled, launched,
                   exited, configured>>
    /\ Finish(c, "")
    /\ UNCHANGED <<daemon, runners, service, counters, request, schedConfig, pre>>

\* mutation: stopTasks that returns with the cancelled context still stored
StopClearCtxForgotten(c) ==
    /\ pc[c] = "stop_clear"
    /\ UNCHANGED <<shared, acts>>
    /\ Finish(c, "")
    /\ UNCHANGED <<daemon, runners, service, counters, request, schedConfig, pre>>

\* schedulerCtx = nil; return 0, nil
StopClearCtx(c) ==
    /\ pc[c] = "stop_clear"
    /\ schedulerCtx' = Nil
    /\ acts' = [acts EXCEPT ![c] = Append(@, Act("clear", Nil, Nil))]
    /\ UNCHANGED <<schedulerConfig, schedulerState, nextCtx, cancelled, launched,
                   exited, configured>>
    /\ Finish(c, "")
    /\ UNCHANGED <<daemon, runners, service, counters, request, schedConfig, pre>>

\* ---- configureTasks ------------------------------------------------------

\* mutation: configureTasks that cancels the running scheduler before it has
\* parsed the payload
ConfigureParseCancelsFirst(c) ==
    /\ pc[c] = "cfg_parse"
    /\ LET r == ParseConfigBytes(request[c].Payload) IN
         IF r.err
         THEN /\ response' = [response EXCEPT ![c] = [ExitCode |-> 1, Err |-> ErrParse]]
              /\ pc' = [pc EXCEPT ![c] = "respond"]
              /\ IF schedulerCtx # Nil
                 THEN /\ cancelled' = cancelled \cup {schedulerCtx}
                      /\ acts' = [acts EXCEPT ![c] =
                                    Append(@, Act("cancel", schedulerCtx, Nil))]
                 ELSE UNCHANGED <<cancelled, acts>>
              /\ UNCHANGED schedConfig
         ELSE /\ schedConfig' = [schedConfig EXCEPT ![c] = r.cfg]
              /\ pc' = [pc EXCEPT ![c] = "cfg_lock"]
              /\ UNCHANGED <<response, cancelled, acts>>
    /\ UNCHANGED <<schedulerCtx, schedulerConfig, schedulerState, nextCtx, launched,
                   exited, configured, mtx, daemon, runners, service, counters, request, pre, post>>

\* schedConfig, err := scheduler.ParseConfigBytes(bytes), before the mutex is taken
ConfigureParse(c) ==
    /\ pc[c] = "cfg_parse"
    /\ LET r == ParseConfigBytes(request[c].Payload) IN
         IF r.err
         THEN /\ response' = [response EXCEPT ![c] = [ExitCode |-> 1, Err |-> ErrParse]]
              /\ pc' = [pc EXCEPT ![c] = "respond"]
              /\ UNCHANGED schedConfig
         ELSE /\ schedConfig' = [schedConfig EXCEPT ![c] = r.cfg]
              /\ pc' = [pc EXCEPT ![c] = "cfg_lock"]
              /\ UNCHANGED response
    /\ UNCHANGED <<shared, mtx, daemon, runners, service, counters, request, pre, post, acts>>

ConfigureLock(c) ==
    /\ pc[c] = "cfg_lock"
    /\ Lock(c)
    /\ pc' = [pc EXCEPT ![c] = "cfg_test"]
    /\ UNCHANGED <<shared, daemon, runners, service, counters, request, response, schedConfig, post, acts>>

\* if schedulerCtx != nil {
ConfigureTestCtx(c) ==
    /\ pc[c] = "cfg_test"
    /\ pc' = [pc EXCEPT ![c] = IF schedulerCtx # Nil THEN "cfg_cancel" ELSE "cfg_store"]
    /\ UNCHANGED <<shared, mtx, daemon, runners, service, counters, request, response, schedConfig,
                   pre, post, acts>>

\* mutation: configureTasks that replaces the context without cancelling it
ConfigureCancelSkipped(c) ==
    /\ pc[c] = "cfg_cancel"
    /\ pc' = [pc EXCEPT ![c] = "cfg_newctx"]
    /\ UNCHANGED <<shared, mtx, daemon, runners, service, counters, request, response, schedConfig,
                   pre, post, acts>>

\* schedulerCtx.Cancel()
ConfigureCancel(c) ==
    /\ pc[c] = "cfg_cancel"
    /\ cancelled' = cancelled \cup {schedulerCtx}
    /\ acts' = [acts EXCEPT ![c] = Append(@, Act("cancel", schedulerCtx, Nil))]
    /\ pc' = [pc EXCEPT ![c] = "cfg_newctx"]
    /\ UNCHANGED <<schedulerCtx, schedulerConfig, schedulerState, nextCtx, launched,
                   exited, configured, mtx,
                   daemon, runners, service, counters, request, response, schedConfig, pre, post>>

\* schedulerCtx = appcontext.NewAppContextFrom(agentCtx)
ConfigureNewCtx(c) ==
    /\ pc[c] = "cfg_newctx"
    /\ nextCtx' = nextCtx + 1
    /\ schedulerCtx' = nextCtx + 1
    /\ acts' = [acts EXCEPT ![c] = Append(@, Act("new", nextCtx + 1, Nil))]
    /\ pc' = [pc EXCEPT ![c] = "cfg_go"]
    /\ UNCHANGED <<schedulerConfig, schedulerState, cancelled, launched, exited,
                   configured, mtx, daemon, runners, service,
                   counters, request, response, schedConfig, pre, post>>

\* mutation: configureTasks that restarts the service under the stored
\* configuration instead of the one it has just parsed
ConfigureGoStoredConfig(c) ==
    /\ pc[c] = "cfg_go"
    /\ launched' = Append(launched, [ctx |-> schedulerCtx, cfg |-> schedulerConfig])
    /\ acts' = [acts EXCEPT ![c] = Append(@, Act("go", schedulerCtx, schedulerConfig))]
    /\ pc' = [pc EXCEPT ![c] = "cfg_store"]
    /\ UNCHANGED <<schedulerCtx, schedulerConfig, schedulerState, nextCtx, cancelled,
                   exited, configured, mtx, daemon, runners, service, counters, request, response,
                   schedConfig, pre, post>>

\* go scheduler.NewScheduler(schedulerCtx, schedConfig).Run()
ConfigureGo(c) ==
    /\ pc[c] = "cfg_go"
    /\ launched' = Append(launched, [ctx |-> schedulerCtx, cfg |-> schedConfig[c]])
    /\ acts' = [acts EXCEPT ![c] = Append(@, Act("go", schedulerCtx, schedConfig[c]))]
    /\ pc' = [pc EXCEPT ![c] = "cfg_store"]
    /\ UNCHANGED <<schedulerCtx, schedulerConfig, schedulerState, nextCtx, cancelled,
                   exited, configured, mtx, daemon, runners, service, counters, request, response, schedConfig, pre, post>>

\* mutation: configureTasks that stores the configuration only inside the
\* `if schedulerCtx != nil` block
ConfigureStoreOnlyRunning(c) ==
    /\ pc[c] = "cfg_store"
    /\ IF schedulerCtx # Nil
       THEN /\ schedulerConfig' = schedConfig[c]
            /\ acts' = [acts EXCEPT ![c] = Append(@, Act("config", Nil, schedConfig[c]))]
       ELSE UNCHANGED <<schedulerConfig, acts>>
    /\ configured' = TRUE
    /\ UNCHANGED <<schedulerCtx, schedulerState, nextCtx, cancelled, launched, exited>>
    /\ Finish(c, "")
    /\ UNCHANGED <<daemon, runners, service, counters, request, schedConfig, pre>>

\* schedulerConfig = schedConfig; return 0, nil
ConfigureStore(c) ==
    /\ pc[c] = "cfg_store"
    /\ schedulerConfig' = schedConfig[c]
    /\ configured' = TRUE
    /\ acts' = [acts EXCEPT ![c] = Append(@, Act("config", Nil, schedConfig[c]))]
    /\ UNCHANGED <<schedulerCtx, schedulerState, nextCtx, cancelled, launched, exited>>
    /\ Finish(c, "")
    /\ UNCHANGED <<daemon, runners, service, counters, request, schedConfig, pre>>

\* ---- terminate -----------------------------------------------------------

\* return 0, stop(): the shutdown trigger, which cancels the daemon's own
\* context unless it fails; takes no mutex and reads nothing of the singleton
\* mutation: terminate that is refused unless a scheduler is running
TerminateOnlyRunning(c) ==
    /\ pc[c] = "terminate"
    /\ IF ~IsRunning(schedulerState)
       THEN /\ response' = [response EXCEPT ![c] = [ExitCode |-> 1, Err |-> ErrNotRunning]]
            /\ UNCHANGED agentCancelled
       ELSE /\ response' = [response EXCEPT ![c] = [ExitCode |-> 0, Err |-> ""]]
            /\ agentCancelled' = TRUE
    /\ pc' = [pc EXCEPT ![c] = "respond"]
    /\ UNCHANGED <<shared, mtx, listenerClosed, panicked, serveErr, runners, service, counters,
                   request, schedConfig, pre, post, acts>>

Terminate(c) ==
    /\ pc[c] = "terminate"
    /\ \E failed \in BOOLEAN :
          IF failed
          THEN /\ response' = [response EXCEPT ![c] = [ExitCode |-> 1, Err |-> ErrStop]]
               /\ UNCHANGED agentCancelled
          ELSE /\ response' = [response EXCEPT ![c] = [ExitCode |-> 0, Err |-> ""]]
               /\ agentCancelled' = TRUE
    /\ pc' = [pc EXCEPT ![c] = "respond"]
    /\ UNCHANGED <<shared, mtx, listenerClosed, panicked, serveErr, runners, service, counters,
                   request, schedConfig, pre, post, acts>>

\* ---- the launched Scheduler Services -------------------------------------

\* SchedulerService.Run's loop: it ends only after <-s.ctx.Done() has fired
ServiceExit(i) ==
    /\ ~panicked
    /\ serveErr = Serving
    /\ i \in DOMAIN launched
    /\ i \notin exited
    /\ Done(launched[i].ctx)
    /\ exited' = exited \cup {i}
    /\ UNCHANGED <<schedulerCtx, schedulerConfig, schedulerState, nextCtx, cancelled,
                   launched, configured, mtx, daemon, runners, service, counters, pc, request, response,
                   schedConfig, pre, post, acts>>

\* ---- the daemon ----------------------------------------------------------

Next ==
    \/ \E c \in Conns : Accept(c)
    \/ CloseListener
    \/ AcceptFails
    \/ \E i \in 1..MaxRequests : ServiceExit(i)
    \/ \E c \in Conns : ReadVersion(c)
    \/ \E c \in Conns : WriteVersion(c)
    \/ \E c \in Conns : ReadRequest(c)
    \/ \E c \in Conns : StartLock(c)
    \/ \E c \in Conns : StartCheckConfig(c)
    \/ \E c \in Conns : StartCheckState(c)
    \/ \E c \in Conns : StartNewCtx(c)
    \/ \E c \in Conns : StartGo(c)
    \/ \E c \in Conns : StartSetState(c)
    \/ \E c \in Conns : StopLock(c)
    \/ \E c \in Conns : StopCheckState(c)
    \/ \E c \in Conns : StopCancel(c)
    \/ \E c \in Conns : StopSetState(c)
    \/ \E c \in Conns : StopClearCtx(c)
    \/ \E c \in Conns : ConfigureParse(c)
    \/ \E c \in Conns : ConfigureLock(c)
    \/ \E c \in Conns : ConfigureTestCtx(c)
    \/ \E c \in Conns : ConfigureCancel(c)
    \/ \E c \in Conns : ConfigureNewCtx(c)
    \/ \E c \in Conns : ConfigureGo(c)
    \/ \E c \in Conns : ConfigureStore(c)
    \/ \E c \in Conns : Terminate(c)
    \/ \E c \in Conns : WriteResponse(c)

Spec == Init /\ [][Next]_vars

\* ---- the daemon and clients that take turns --------------------------------

\* listener.Accept() returns the connection of a client that waited for the
\* answer to the request before
AcceptInTurn(c) ==
    /\ ~listenerClosed
    /\ pc[c] = "idle"
    /\ c = 1
    /\ inflight = 0
    /\ nextID < MaxSequence
    /\ inflight' = inflight + 1
    /\ nextID' = nextID + 1
    /\ pc' = [pc EXCEPT ![c] = "readvers"]
    /\ UNCHANGED <<shared, mtx, daemon, runners, service, request, response, schedConfig, pre, post, acts>>

\* the daemon, its requests served one after another
NextRestart ==
    \/ \E c \in Conns : AcceptInTurn(c)
    \/ CloseListener
    \/ AcceptFails
    \/ \E i \in 1..MaxSequence : ServiceExit(i)
    \/ \E c \in Conns : ReadVersion(c)
    \/ \E c \in Conns : WriteVersion(c)
    \/ \E c \in Conns : ReadRequest(c)
    \/ \E c \in Conns : StartLock(c)
    \/ \E c \in Conns : StartCheckConfig(c)
    \/ \E c \in Conns : StartCheckState(c)
    \/ \E c \in Conns : StartNewCtx(c)
    \/ \E c \in Conns : StartGo(c)
    \/ \E c \in Conns : StartSetState(c)
    \/ \E c \in Conns : StopLock(c)
    \/ \E c \in Conns : StopCheckState(c)
    \/ \E c \in Conns : StopCancel(c)
    \/ \E c \in Conns : StopSetState(c)
    \/ \E c \in Conns : StopClearCtx(c)
    \/ \E c \in Conns : ConfigureParse(c)
    \/ \E c \in Conns : ConfigureLock(c)
    \/ \E c \in Conns : ConfigureTestCtx(c)
    \/ \E c \in Conns : ConfigureCancel(c)
    \/ \E c \in Conns : ConfigureNewCtx(c)
    \/ \E c \in Conns : ConfigureGo(c)
    \/ \E c \in Conns : ConfigureStore(c)
    \/ \E c \in Conns : Terminate(c)
    \/ \E c \in Conns : WriteResponse(c)

SpecRestart == Init /\ [][NextRestart]_vars

TypeOK ==
    /\ schedulerCtx \in 0..MaxRequests
    /\ schedulerConfig \in 0..NumConfigs
    /\ schedulerState \in {AGENT_SCHEDULER_STOPPED, AGENT_SCHEDULER_RUNNING}
    /\ mtx \in {0} \cup Conns
    /\ inflight \in 0..MaxConns
    /\ nextID \in 0..MaxRequests

\* ---- the Task Runner Loops ------------------------------------------------

\* s.ctx of the Scheduler whose loops are followed: the context the first
\* service was launched on
sCtx == launched[1].ctx

\* where loadRepository can fail: up to and including storage.Open, on the
\* repository configuration read from the opened storage (wrapped bytes,
\* version, key, canary), or in repository.New
Faults == {"none", "storage", "format", "repository"}

\* mutation: loadRepository that returns its error without closing the storage
loadRepositoryLeaksStore(fault) ==
    [repo |-> IF fault = "none" THEN 1 ELSE 0,
     err |-> fault # "none",
     opened |-> IF fault = "storage" THEN 0 ELSE 1,
     closed |-> 0]

\* loadRepository: what it returns and what it did to the storage handle
loadRepository(fault) ==
    [repo |-> IF fault = "none" THEN 1 ELSE 0,
     err |-> fault # "none",
     opened |-> IF fault = "storage" THEN 0 ELSE 1,
     closed |-> IF fault \in {"format", "repository"} THEN 1 ELSE 0]

\* the loops that run rm after the primary operation
HasPurge(k) == k \in {"backup", "maintenance"}

\* what the primary operation of a loop can return: DoBackup alone has a warning
OpResults(k) == IF k = "backup" THEN {"ok", "warning", "failed"} ELSE {"ok", "failed"}

\* the calls on the Report once the primary operation has succeeded
Succeeded(k) == IF k = "backup" THEN <<"WithSnapshotID">> ELSE <<>>

\* mutation: a warning of the primary operation is dropped
FinalAlwaysDone(k, res) ==
    "TaskDone"

\* the terminal call of a tick on which nothing failed
Final(k, res) ==
    IF k = "backup" /\ res = "warning" THEN "TaskWarning" ELSE "TaskDone"

\* time.After(task.Interval): the instant at which the timer's channel is ready
After(k) == now + taskset[k].Interval

\* mutation: syncTask returns on a direction it does not know and leaves the
\* context alone
LaunchReturnsQuietly(k) ==
    /\ lpc[k] = "launch"
    /\ IF k = "sync" /\ taskset[k].Direction \notin
                           {SyncDirectionTo, SyncDirectionFrom, SyncDirectionWith}
       THEN /\ lpc' = [lpc EXCEPT ![k] = "exited"]
            /\ UNCHANGED timer
       ELSE /\ lpc' = [lpc EXCEPT ![k] = "wait"]
            /\ timer' = [timer EXCEPT ![k] = After(k)]
    /\ UNCHANGED <<shared, mtx, daemon, counters, handlers, service, purging,
                   taskset, store, repo, report, outcome, ticked>>

\* the body of a loop function before its `for`, and the first timer: syncTask
\* cancels the context and returns on a direction it does not know
Launch(k) ==
    /\ lpc[k] = "launch"
    /\ IF k = "sync" /\ taskset[k].Direction \notin
                           {SyncDirectionTo, SyncDirectionFrom, SyncDirectionWith}
       THEN /\ cancelled' = cancelled \cup {sCtx}
            /\ lpc' = [lpc EXCEPT ![k] = "exited"]
            /\ UNCHANGED timer
       ELSE /\ lpc' = [lpc EXCEPT ![k] = "wait"]
            /\ timer' = [timer EXCEPT ![k] = After(k)]
            /\ UNCHANGED cancelled
    /\ UNCHANGED <<schedulerCtx, schedulerConfig, schedulerState, nextCtx, launched,
                   exited, configured, mtx, daemon, counters, handlers, service, purging,
                   taskset, store, repo, report, outcome, ticked>>

\* select takes `case <-s.ctx.Done(): return`; the locals of the loop are gone
Exit(k) ==
    /\ lpc[k] = "wait"
    /\ Done(sCtx)
    /\ lpc' = [lpc EXCEPT ![k] = "exited"]
    /\ store' = [store EXCEPT ![k] = NoHandle]
    /\ repo' = [repo EXCEPT ![k] = NoHandle]
    /\ report' = [report EXCEPT ![k] = <<>>]
    /\ outcome' = [outcome EXCEPT ![k] = NoOutcome]
    /\ snapshot' = [snapshot EXCEPT ![k] = NoTime]
    /\ before' = [before EXCEPT ![k] = NoTime]
    /\ timer' = [timer EXCEPT ![k] = NoTime]
    /\ UNCHANGED <<shared, mtx, daemon, counters, handlers, service, taskset, ticked>>

\* task.Interval has passed since `tick := time.After(task.Interval)` and
\* select takes `case <-tick:`, whether or not s.ctx.Done() is closed as well;
\* the locals of the previous tick are gone
Tick(k) ==
    /\ lpc[k] = "wait"
    /\ timer[k] <= now
    /\ lpc' = [lpc EXCEPT ![k] = "load"]
    /\ timer' = [timer EXCEPT ![k] = NoTime]
    /\ ticked' = [ticked EXCEPT ![k] = now]
    /\ store' = [store EXCEPT ![k] = NoHandle]
    /\ repo' = [repo EXCEPT ![k] = NoHandle]
    /\ report' = [report EXCEPT ![k] = <<>>]
    /\ outcome' = [outcome EXCEPT ![k] = NoOutcome]
    /\ snapshot' = [snapshot EXCEPT ![k] = NoTime]
    /\ before' = [before EXCEPT ![k] = NoTime]
    /\ UNCHANGED <<shared, mtx, daemon, counters, handlers, service, taskset>>

\* mutation: a loop that goes on with the tick whatever loadRepository returned
LoadIgnoresError(k) ==
    /\ lpc[k] = "load"
    /\ \E fault \in Faults :
          LET r == loadRepository(fault)
          IN  /\ store' = [store EXCEPT ![k] = [opened |-> r.opened, closed |-> r.closed]]
              /\ repo' = [repo EXCEPT ![k] = [opened |-> r.repo, closed |-> 0]]
              /\ outcome' = [outcome EXCEPT ![k].load = IF r.err THEN "failed" ELSE "ok",
                                            ![k].logged = r.err]
              /\ lpc' = [lpc EXCEPT ![k] = "report"]
    /\ UNCHANGED <<shared, mtx, daemon, counters, handlers, service, purging, timing,
                   taskset, report>>

\* mutation: a loop that reports a load failure as a failed task
LoadReportsFailure(k) ==
    /\ lpc[k] = "load"
    /\ \E fault \in Faults :
          LET r == loadRepository(fault)
          IN  /\ store' = [store EXCEPT ![k] = [opened |-> r.opened, closed |-> r.closed]]
              /\ repo' = [repo EXCEPT ![k] = [opened |-> r.repo, closed |-> 0]]
              /\ outcome' = [outcome EXCEPT ![k].load = IF r.err THEN "failed" ELSE "ok",
                                            ![k].logged = r.err]
              /\ report' = [report EXCEPT ![k] =
                              IF r.err THEN <<"TaskStart", "TaskFailed">> ELSE <<>>]
              /\ lpc' = [lpc EXCEPT ![k] = IF r.err THEN "wait" ELSE "report"]
              /\ timer' = [timer EXCEPT ![k] = IF r.err THEN After(k) ELSE @]
              /\ ticked' = [ticked EXCEPT ![k] = IF r.err THEN NoTime ELSE @]
    /\ UNCHANGED <<shared, mtx, daemon, counters, handlers, service, purging, taskset>>

\* repo, store, err := loadRepository(...); on an error the loop logs it and
\* continues, which makes a new timer
Load(k) ==
    /\ lpc[k] = "load"
    /\ \E fault \in Faults :
          LET r == loadRepository(fault)
          IN  /\ store' = [store EXCEPT ![k] = [opened |-> r.opened, closed |-> r.closed]]
              /\ repo' = [repo EXCEPT ![k] = [opened |-> r.repo, closed |-> 0]]
              /\ outcome' = [outcome EXCEPT ![k].load = IF r.err THEN "failed" ELSE "ok",
                                            ![k].logged = r.err]
              /\ lpc' = [lpc EXCEPT ![k] = IF r.err THEN "wait" ELSE "report"]
              /\ timer' = [timer EXCEPT ![k] = IF r.err THEN After(k) ELSE @]
              /\ ticked' = [ticked EXCEPT ![k] = IF r.err THEN NoTime ELSE @]
    /\ UNCHANGED <<shared, mtx, daemon, counters, handlers, service, purging, taskset, report>>

\* report := s.reporter.NewReport(); TaskStart; WithRepositoryName; WithRepository
StartReport(k) ==
    /\ lpc[k] = "report"
    /\ report' = [report EXCEPT ![k] = <<"TaskStart", "WithRepositoryName", "WithRepository">>]
    /\ lpc' = [lpc EXCEPT ![k] = "op"]
    /\ UNCHANGED <<shared, mtx, daemon, counters, handlers, service, purging, timing,
                   taskset, store, repo, outcome>>

\* mutation: a failed primary operation is reported and the tick carries on
\* to the purge
OperationPurgesAfterFailure(k) ==
    /\ lpc[k] = "op"
    /\ \E res \in OpResults(k) :
          /\ outcome' = [outcome EXCEPT ![k].op = res]
          /\ IF k = "backup" /\ res # "failed"
             THEN \E snapId \in 0..now : snapshot' = [snapshot EXCEPT ![k] = snapId]
             ELSE UNCHANGED snapshot
          /\ IF HasPurge(k) /\ taskset[k].Retention # 0
             THEN /\ report' = [report EXCEPT ![k] =
                                  IF res = "failed" THEN Append(@, "TaskFailed")
                                  ELSE @ \o Succeeded(k)]
                  /\ lpc' = [lpc EXCEPT ![k] = "purge"]
             ELSE /\ report' = [report EXCEPT ![k] =
                                  IF res = "failed" THEN Append(@, "TaskFailed")
                                  ELSE (@ \o Succeeded(k)) \o <<Final(k, res)>>]
                  /\ lpc' = [lpc EXCEPT ![k] = "close"]
    /\ UNCHANGED <<shared, mtx, daemon, counters, handlers, service, timing, taskset,
                   store, repo, before>>

\* the primary operation returns.  A failure finalizes the report and goes to
\* the closing of the handles; a success goes on to rm when the loop has a
\* purge and Retention is not zero, and to the terminal call otherwise.
\* DoBackup returns the identifier of the snapshot it made, which stands here
\* for the snapshot's timestamp: some instant up to the return of the call.
Operation(k) ==
    /\ lpc[k] = "op"
    /\ \E res \in OpResults(k) :
          /\ outcome' = [outcome EXCEPT ![k].op = res]
          /\ IF k = "backup" /\ res # "failed"
             THEN \E snapId \in 0..now : snapshot' = [snapshot EXCEPT ![k] = snapId]
             ELSE UNCHANGED snapshot
          /\ IF res = "failed"
             THEN /\ report' = [report EXCEPT ![k] = Append(@, "TaskFailed")]
                  /\ lpc' = [lpc EXCEPT ![k] = "close"]
             ELSE IF HasPurge(k) /\ taskset[k].Retention # 0
             THEN /\ report' = [report EXCEPT ![k] = @ \o Succeeded(k)]
                  /\ lpc' = [lpc EXCEPT ![k] = "purge"]
             ELSE /\ report' = [report EXCEPT ![k] = (@ \o Succeeded(k)) \o <<Final(k, res)>>]
                  /\ lpc' = [lpc EXCEPT ![k] = "close"]
    /\ UNCHANGED <<shared, mtx, daemon, counters, handlers, service, timing, taskset,
                   store, repo, before>>

\* mutation: a failed purge finalizes the report as failed
PurgeFailureFails(k) ==
    /\ lpc[k] = "purge"
    /\ before' = [before EXCEPT ![k] = now - taskset[k].Retention]
    /\ \E res \in {"ok", "failed"} :
          /\ outcome' = [outcome EXCEPT ![k].purge = res]
          /\ report' = [report EXCEPT ![k] =
                          Append(@, IF res = "failed" THEN "TaskFailed"
                                    ELSE Final(k, outcome[k].op))]
    /\ lpc' = [lpc EXCEPT ![k] = "close"]
    /\ UNCHANGED <<shared, mtx, daemon, counters, handlers, service, timing, taskset,
                   store, repo, snapshot>>

\* mutation: the cutoff of the purge is the present instant, whatever Retention
PurgeCutoffIsNow(k) ==
    /\ lpc[k] = "purge"
    /\ before' = [before EXCEPT ![k] = now]
    /\ \E res \in {"ok", "failed"} :
          /\ outcome' = [outcome EXCEPT ![k].purge = res]
          /\ report' = [report EXCEPT ![k] =
                          Append(@, IF res = "failed" THEN "TaskWarning"
                                    ELSE Final(k, outcome[k].op))]
    /\ lpc' = [lpc EXCEPT ![k] = "close"]
    /\ UNCHANGED <<shared, mtx, daemon, counters, handlers, service, timing, taskset,
                   store, repo, snapshot>>

\* mutation: a failed purge is reported as a warning without `goto close`
PurgeWarnsAndGoesOn(k) ==
    /\ lpc[k] = "purge"
    /\ before' = [before EXCEPT ![k] = now - taskset[k].Retention]
    /\ \E res \in {"ok", "failed"} :
          /\ outcome' = [outcome EXCEPT ![k].purge = res]
          /\ report' = [report EXCEPT ![k] =
                          IF res = "failed"
                          THEN @ \o <<"TaskWarning", Final(k, outcome[k].op)>>
                          ELSE Append(@, Final(k, outcome[k].op))]
    /\ lpc' = [lpc EXCEPT ![k] = "close"]
    /\ UNCHANGED <<shared, mtx, daemon, counters, handlers, service, timing, taskset,
                   store, repo, snapshot>>

\* LocateOptions.Before is set to time.Now().Add(-task.Retention) and
\* rmSubcommand.Execute returns: a failure finalizes the report as a warning,
\* a success leaves the terminal call to the result of the primary operation
Purge(k) ==
    /\ lpc[k] = "purge"
    /\ before' = [before EXCEPT ![k] = now - taskset[k].Retention]
    /\ \E res \in {"ok", "failed"} :
          /\ outcome' = [outcome EXCEPT ![k].purge = res]
          /\ report' = [report EXCEPT ![k] =
                          Append(@, IF res = "failed" THEN "TaskWarning"
                                    ELSE Final(k, outcome[k].op))]
    /\ lpc' = [lpc EXCEPT ![k] = "close"]
    /\ UNCHANGED <<shared, mtx, daemon, counters, handlers, service, timing, taskset,
                   store, repo, snapshot>>

\* mutation: a loop that gives up after a tick that failed
CloseStopsAfterFailure(k) ==
    /\ lpc[k] = "close"
    /\ repo' = [repo EXCEPT ![k].closed = @ + 1]
    /\ store' = [store EXCEPT ![k].closed = @ + 1]
    /\ lpc' = [lpc EXCEPT ![k] = IF outcome[k].op = "failed" \/ outcome[k].purge = "failed"
                                  THEN "exited" ELSE "wait"]
    /\ timer' = [timer EXCEPT ![k] = IF outcome[k].op = "failed" \/ outcome[k].purge = "failed"
                                      THEN NoTime ELSE After(k)]
    /\ ticked' = [ticked EXCEPT ![k] = NoTime]
    /\ UNCHANGED <<shared, mtx, daemon, counters, handlers, service, purging, taskset, report, outcome>>

\* mutation: the new timer runs from the instant of the tick, not from now
CloseRearmsFromTick(k) ==
    /\ lpc[k] = "close"
    /\ repo' = [repo EXCEPT ![k].closed = @ + 1]
    /\ store' = [store EXCEPT ![k].closed = @ + 1]
    /\ lpc' = [lpc EXCEPT ![k] = "wait"]
    /\ timer' = [timer EXCEPT ![k] = ticked[k] + taskset[k].Interval]
    /\ ticked' = [ticked EXCEPT ![k] = NoTime]
    /\ UNCHANGED <<shared, mtx, daemon, counters, handlers, service, purging, taskset, report, outcome>>

\* close: repo.Close(); store.Close(); the loop goes round and makes a new
\* timer
Close(k) ==
    /\ lpc[k] = "close"
    /\ repo' = [repo EXCEPT ![k].closed = @ + 1]
    /\ store' = [store EXCEPT ![k].closed = @ + 1]
    /\ lpc' = [lpc EXCEPT ![k] = "wait"]
    /\ timer' = [timer EXCEPT ![k] = After(k)]
    /\ ticked' = [ticked EXCEPT ![k] = NoTime]
    /\ UNCHANGED <<shared, mtx, daemon, counters, handlers, service, purging, taskset, report, outcome>>

\* the daemon's context is cancelled while the loops run
CancelDaemon ==
    /\ ~agentCancelled
    /\ agentCancelled' = TRUE
    /\ UNCHANGED <<shared, mtx, listenerClosed, panicked, serveErr, counters,
                   handlers, runners, service>>

\* the job's task configurations: up to MaxTasks kinds have a task
TaskSets ==
    {t \in [Kinds -> {NoTask} \cup UNION {TaskConfigs(k) : k \in Kinds}] :
        /\ \A k \in Kinds : t[k] # NoTask => t[k] \in TaskConfigs(k)
        /\ Cardinality({k \in Kinds : t[k] # NoTask}) \in 1..MaxTasks}

\* a configure request and a start request have been served and the launched
\* Scheduler has started one loop for every task of the job
InitTasks ==
    /\ schedulerCtx = 1
    /\ schedulerConfig = 1
    /\ schedulerState = AGENT_SCHEDULER_RUNNING
    /\ mtx = 0
    /\ nextCtx = 1
    /\ cancelled = {}
    /\ launched = <<[ctx |-> 1, cfg |-> 1]>>
    /\ exited = {}
    /\ configured = TRUE
    /\ agentCancelled = FALSE
    /\ listenerClosed = FALSE
    /\ panicked = FALSE
    /\ serveErr = Serving
    /\ inflight = 0
    /\ nextID = 2
    /\ pc = [c \in Conns |-> "idle"]
    /\ request = [c \in Conns |-> NoRequest]
    /\ response = [c \in Conns |-> NoResponse]
    /\ schedConfig = [c \in Conns |-> Nil]
    /\ pre = [c \in Conns |-> NoSnapshot]
    /\ post = [c \in Conns |-> NoSnapshot]
    /\ acts = [c \in Conns |-> <<>>]
    /\ taskset \in TaskSets
    /\ lpc = [k \in Kinds |-> IF taskset[k] = NoTask THEN "none" ELSE "launch"]
    /\ store = [k \in Kinds |-> NoHandle]
    /\ repo = [k \in Kinds |-> NoHandle]
    /\ report = [k \in Kinds |-> <<>>]
    /\ outcome = [k \in Kinds |-> NoOutcome]
    /\ timer = [k \in Kinds |-> NoTime]
    /\ ticked = [k \in Kinds |-> NoTime]
    /\ svc = "none"
    /\ stops = [roll |-> 0, job |-> 0]
    /\ scheduleq = 0
    /\ runq = 0
    /\ now = 0
    /\ snapshot = [k \in Kinds |-> NoTime]
    /\ before = [k \in Kinds |-> NoTime]
    /\ config = [j \in JobNames |-> <<>>]
    /\ started = [roll |-> "", job |-> ""]
    /\ rollover = {}
    /\ ready = <<>>
    /\ ticks = <<>>
    /\ jobs = <<>>
    /\ planned = <<>>
    /\ ran = NoEvent
    /\ armed = 0
    /\ HubAbsent

NextTasks ==
    \/ \E k \in Kinds : Launch(k)
    \/ \E k \in Kinds : Exit(k)
    \/ \E k \in Kinds : Tick(k)
    \/ \E k \in Kinds : Load(k)
    \/ \E k \in Kinds : StartReport(k)
    \/ \E k \in Kinds : Operation(k)
    \/ \E k \in Kinds : Purge(k)
    \/ \E k \in Kinds : Close(k)
    \/ CancelDaemon

SpecTasks == InitTasks /\ [][NextTasks]_vars

\* a step of the goroutine of loop k other than leaving on cancellation
LoopStep(k) ==
    \/ Launch(k)
    \/ Tick(k)
    \/ Load(k)
    \/ StartReport(k)
    \/ Operation(k)
    \/ Purge(k)
    \/ Close(k)

\* some loop leaves on cancellation
SomeExit == \E k \in Kinds : Exit(k)

\* Every loop is a goroutine of its own: it is scheduled again and again, the
\* calls it makes return and its interval elapses, hence weak fairness of its
\* steps.
FairTasks ==
    /\ SpecTasks
    /\ \A k \in Kinds : WF_vars(LoopStep(k))

\* ---- the Task Runner Loops and the clock -----------------------------------

\* time passes
Advance ==
    /\ now < MaxTime
    /\ now' = now + 1
    /\ UNCHANGED <<shared, mtx, daemon, counters, handlers, runners, svc, stops,
                   scheduleq, runq, calendar, web>>

\* the jobs whose tasks all have a retention purge
RetentionJobs == {t \in TaskSets : \A k \in Kinds : t[k] # NoTask => HasPurge(k)}

\* the loops of such a job have been started at the first instant
InitRetention ==
    /\ InitTasks
    /\ taskset \in RetentionJobs

NextRetention ==
    \/ NextTasks
    \/ Advance

SpecRetention == InitRetention /\ [][NextRetention]_vars

\* ---- the Task Runner Loops and their intervals ------------------------------

\* task.Interval of the jobs whose intervals are followed
Intervals == 1..MaxInterval

\* the job t with the intervals d
Every(t, d) ==
    [k \in Kinds |-> IF t[k] = NoTask THEN NoTask ELSE [t[k] EXCEPT !.Interval = d[k]]]

\* the jobs of one task, of any kind and configuration, with any interval
IntervalJobs ==
    {Every(t, [k \in Kinds |-> d]) :
        t \in {u \in TaskSets : Cardinality({k \in Kinds : u[k] # NoTask}) = 1},
        d \in Intervals}

\* the launched Scheduler has started the loop of such a job
InitInterval ==
    /\ schedulerCtx = 1
    /\ schedulerConfig = 1
    /\ schedulerState = AGENT_SCHEDULER_RUNNING
    /\ mtx = 0
    /\ nextCtx = 1
    /\ cancelled = {}
    /\ launched = <<[ctx |-> 1, cfg |-> 1]>>
    /\ exited = {}
    /\ configured = TRUE
    /\ agentCancelled = FALSE
    /\ listenerClosed = FALSE
    /\ panicked = FALSE
    /\ serveErr = Serving
    /\ inflight = 0
    /\ nextID = 2
    /\ pc = [c \in Conns |-> "idle"]
    /\ request = [c \in Conns |-> NoRequest]
    /\ response = [c \in Conns |-> NoResponse]
    /\ schedConfig = [c \in Conns |-> Nil]
    /\ pre = [c \in Conns |-> NoSnapshot]
    /\ post = [c \in Conns |-> NoSnapshot]
    /\ acts = [c \in Conns |-> <<>>]
    /\ taskset \in IntervalJobs
    /\ lpc = [k \in Kinds |-> IF taskset[k] = NoTask THEN "none" ELSE "launch"]
    /\ store = [k \in Kinds |-> NoHandle]
    /\ repo = [k \in Kinds |-> NoHandle]
    /\ report = [k \in Kinds |-> <<>>]
    /\ outcome = [k \in Kinds |-> NoOutcome]
    /\ timer = [k \in Kinds |-> NoTime]
    /\ ticked = [k \in Kinds |-> NoTime]
    /\ svc = "none"
    /\ stops = [roll |-> 0, job |-> 0]
    /\ scheduleq = 0
    /\ runq = 0
    /\ now = 0
    /\ snapshot = [k \in Kinds |-> NoTime]
    /\ before = [k \in Kinds |-> NoTime]
    /\ config = [j \in JobNames |-> <<>>]
    /\ started = [roll |-> "", job |-> ""]
    /\ rollover = {}
    /\ ready = <<>>
    /\ ticks = <<>>
    /\ jobs = <<>>
    /\ planned = <<>>
    /\ ran = NoEvent
    /\ armed = 0
    /\ HubAbsent

NextInterval ==
    \/ NextTasks
    \/ Advance

SpecInterval == InitInterval /\ [][NextInterval]_vars

\* ---- the Scheduler Service ------------------------------------------------

\* one more call of Stop(), counted up to 2
Again(n) == IF n < 2 THEN n + 1 ELSE 2

\* the rollover engine delivers the event armed by sched.ScheduleAt(t, t)
RolloverDue ==
    /\ svc \in {"select", "exec"}
    /\ stops.roll = 0
    /\ scheduleq = 0
    /\ scheduleq' = 1
    /\ UNCHANGED <<shared, mtx, daemon, counters, handlers, runners, now, web, calendar, svc, stops, runq>>

\* the job-ready engine delivers an event armed by ScheduleForDate
JobDue ==
    /\ svc \in {"select", "exec"}
    /\ stops.job = 0
    /\ runq < MaxQueue
    /\ runq' = runq + 1
    /\ UNCHANGED <<shared, mtx, daemon, counters, handlers, runners, now, web, calendar, svc, stops, scheduleq>>

\* case t := <-scheduleq: NextDay, ScheduleForDate, and the rollover is armed
\* again by sched.ScheduleAt(t, t)
SvcRollover ==
    /\ svc = "select"
    /\ scheduleq = 1
    /\ scheduleq' = 0
    /\ UNCHANGED <<shared, mtx, daemon, counters, handlers, runners, now, web, calendar, svc, stops, runq>>

\* mutation: the cancellation branch stops the job-ready engine only
SvcCancelForgetsRollover ==
    /\ svc = "select"
    /\ Done(sCtx)
    /\ stops' = [stops EXCEPT !.job = Again(@)]
    /\ UNCHANGED <<shared, mtx, daemon, counters, handlers, runners, now, web, calendar, svc, scheduleq, runq>>

\* case <-s.ctx.Done(): sched.Stop(); s.sched.Stop()
SvcCancel ==
    /\ svc = "select"
    /\ Done(sCtx)
    /\ stops' = [roll |-> Again(stops.roll), job |-> Again(stops.job)]
    /\ UNCHANGED <<shared, mtx, daemon, counters, handlers, runners, now, web, calendar, svc, scheduleq, runq>>

\* mutation: the loop is left without the reporter being waited for
SvcStoppedSkipsFlush ==
    /\ svc = "select"
    /\ stops.job > 0
    /\ svc' = "exited"
    /\ UNCHANGED <<shared, mtx, daemon, counters, handlers, runners, now, web, calendar, stops, scheduleq, runq>>

\* case <-stopped: goto out; the done signal of the job-ready engine is there
\* once that engine has been stopped
SvcStopped ==
    /\ svc = "select"
    /\ stops.job > 0
    /\ svc' = "out"
    /\ UNCHANGED <<shared, mtx, daemon, counters, handlers, runners, now, web, calendar, stops, scheduleq, runq>>

\* case schedJob := <-runq: the job's Execute is called
SvcJob ==
    /\ svc = "select"
    /\ runq > 0
    /\ runq' = runq - 1
    /\ svc' = "exec"
    /\ UNCHANGED <<shared, mtx, daemon, counters, handlers, runners, now, web, calendar, stops, scheduleq>>

\* schedJob.job.Execute returns
SvcJobDone ==
    /\ svc = "exec"
    /\ svc' = "select"
    /\ UNCHANGED <<shared, mtx, daemon, counters, handlers, runners, now, web, calendar, stops, scheduleq, runq>>

\* out: s.reporter.StopAndWait(), and the goroutine ends
SvcOut ==
    /\ svc = "out"
    /\ svc' = "exited"
    /\ UNCHANGED <<shared, mtx, daemon, counters, handlers, runners, now, web, calendar, stops, scheduleq, runq>>

\* a job with the two tasks a and b: purges are enabled, a sync goes "to"
Job(a, b) ==
    [k \in Kinds |->
        IF k \notin {a, b} THEN NoTask
        ELSE [Interval |-> 0,
              Retention |-> IF HasPurge(k) THEN 1 ELSE 0,
              Direction |-> IF k = "sync" THEN SyncDirectionTo ELSE ""]]

\* the jobs whose shutdown is followed: between them they have a loop of
\* every kind
CascadeJobs == {Job("backup", "check"), Job("backup", "restore"), Job("maintenance", "sync")}

\* the launched Scheduler runs its service loop, both engines started and the
\* rollover armed for now, and one Task Runner Loop for every task of the job
InitCascade ==
    /\ schedulerCtx = 1
    /\ schedulerConfig = 1
    /\ schedulerState = AGENT_SCHEDULER_RUNNING
    /\ mtx = 0
    /\ nextCtx = 1
    /\ cancelled = {}
    /\ launched = <<[ctx |-> 1, cfg |-> 1]>>
    /\ exited = {}
    /\ configured = TRUE
    /\ agentCancelled = FALSE
    /\ listenerClosed = FALSE
    /\ panicked = FALSE
    /\ serveErr = Serving
    /\ inflight = 0
    /\ nextID = 2
    /\ pc = [c \in Conns |-> "idle"]
    /\ request = [c \in Conns |-> NoRequest]
    /\ response = [c \in Conns |-> NoResponse]
    /\ schedConfig = [c \in Conns |-> Nil]
    /\ pre = [c \in Conns |-> NoSnapshot]
    /\ post = [c \in Conns |-> NoSnapshot]
    /\ acts = [c \in Conns |-> <<>>]
    /\ taskset \in CascadeJobs
    /\ lpc = [k \in Kinds |-> IF taskset[k] = NoTask THEN "none" ELSE "launch"]
    /\ store = [k \in Kinds |-> NoHandle]
    /\ repo = [k \in Kinds |-> NoHandle]
    /\ report = [k \in Kinds |-> <<>>]
    /\ outcome = [k \in Kinds |-> NoOutcome]
    /\ timer = [k \in Kinds |-> NoTime]
    /\ ticked = [k \in Kinds |-> NoTime]
    /\ svc = "select"
    /\ stops = [roll |-> 0, job |-> 0]
    /\ scheduleq = 0
    /\ runq = 0
    /\ now = 0
    /\ snapshot = [k \in Kinds |-> NoTime]
    /\ before = [k \in Kinds |-> NoTime]
    /\ config = [j \in JobNames |-> <<>>]
    /\ started = [roll |-> "ok", job |-> "ok"]
    /\ rollover = {}
    /\ ready = <<>>
    /\ ticks = <<>>
    /\ jobs = <<>>
    /\ planned = <<>>
    /\ ran = NoEvent
    /\ armed = 0
    /\ HubAbsent

NextCascade ==
    \/ \E k \in Kinds : Launch(k)
    \/ \E k \in Kinds : Exit(k)
    \/ \E k \in Kinds : Tick(k)
    \/ \E k \in Kinds : Load(k)
    \/ \E k \in Kinds : StartReport(k)
    \/ \E k \in Kinds : Operation(k)
    \/ \E k \in Kinds : Purge(k)
    \/ \E k \in Kinds : Close(k)
    \/ CancelDaemon
    \/ RolloverDue
    \/ JobDue
    \/ SvcRollover
    \/ SvcCancel
    \/ SvcStopped
    \/ SvcJob
    \/ SvcJobDone
    \/ SvcOut

\* a step by which a goroutine of the scheduler takes notice of the cancellation
Shutdown == SomeExit \/ SvcCancel \/ SvcStopped

\* The loops are fair as in FairTasks, and so is the service goroutine: it is
\* scheduled again and again and the job it executes returns.  A select whose
\* cases are ready together chooses one of them at random, so neither a loop
\* nor the service takes its timer or its queues for ever while s.ctx.Done()
\* or the done signal is ready again and again: strong fairness of taking
\* notice.
FairCascade ==
    /\ InitCascade /\ [][NextCascade]_vars
    /\ \A k \in Kinds : WF_vars(LoopStep(k))
    /\ WF_vars(SvcJobDone)
    /\ WF_vars(SvcOut)
    /\ SF_vars(Shutdown)

\* ---- the Scheduler Service and its calendar --------------------------------
\* The same service loop, followed with the clock, the pending events of the
\* two engines and the contents of the two channels; scheduleq and runq keep
\* counting what waits on them.

\* time.Date(year, month, day, 0, 0, 0, 0, date.Location())
Midnight(date) == (date \div DayLen) * DayLen

\* mutation: the next day is the same instant one day later
NextDayAddsOneDay(date) ==
    date + DayLen

\* SchedulerService.NextDay: the midnight of the date, plus one day
NextDay(date) ==
    Midnight(date) + DayLen

\* Schedule.PlanForDate: the instants of the date's day that the mask selects,
\* in ascending order
PlanForDate(mask, date) ==
    LET RECURSIVE From(_)
        From(i) == IF i >= DayLen THEN <<>>
                   ELSE (IF i \in mask THEN <<Midnight(date) + i>> ELSE <<>>) \o From(i + 1)
    IN  From(0)

RECURSIVE Flatten(_)
\* the concatenation of a sequence of sequences
Flatten(ss) == IF ss = <<>> THEN <<>> ELSE Head(ss) \o Flatten(Tail(ss))

\* the orders in which `range s.config.Jobs` can visit the jobs
Orders == {o \in [1..NumJobs -> JobNames] : \A i, j \in 1..NumJobs : o[i] = o[j] => i = j}

\* mutation: an instant for which the job is already pending is not armed again
ScheduleForDateOnlyNew(date, order) ==
    Flatten([n \in DOMAIN order |->
        Flatten([k \in DOMAIN config[order[n]] |->
            LET plan == PlanForDate(config[order[n]][k], date)
                Fresh(t) == /\ ~(t < date)
                            /\ \A i \in DOMAIN ready :
                                  ~(ready[i].job = order[n] /\ ready[i].scheduled = t)
                kept == SelectSeq(plan, Fresh)
            IN  [i \in DOMAIN kept |-> [job |-> order[n], scheduled |-> kept[i]]]])])

\* mutation: the instant of the date itself is skipped as well
ScheduleForDateSkipsDate(date, order) ==
    Flatten([n \in DOMAIN order |->
        Flatten([k \in DOMAIN config[order[n]] |->
            LET plan == PlanForDate(config[order[n]][k], date)
                Later(t) == t > date
                kept == SelectSeq(plan, Later)
            IN  [i \in DOMAIN kept |-> [job |-> order[n], scheduled |-> kept[i]]]])])

\* SchedulerService.ScheduleForDate: the ScheduleAt calls it makes on the
\* job-ready engine, in order.  The jobs are visited in the order of the map
\* iteration, the schedules of a job and the instants of a plan in their own
\* order, and an instant before the date is skipped.
ScheduleForDate(date, order) ==
    Flatten([n \in DOMAIN order |->
        Flatten([k \in DOMAIN config[order[n]] |->
            LET plan == PlanForDate(config[order[n]][k], date)
                NotBefore(t) == ~(t < date)
                kept == SelectSeq(plan, NotBefore)
            IN  [i \in DOMAIN kept |-> [job |-> order[n], scheduled |-> kept[i]]]])])

\* the pending events of the job-ready engine after the ScheduleAt calls made
\* by ScheduleForDate: each new event is ranked after all those armed before
Arm(calls) ==
    ready \o [i \in DOMAIN calls |->
                 [job |-> calls[i].job, scheduled |-> calls[i].scheduled, rank |-> armed + i]]

\* event a is due before event b: earlier, or at the same time and armed first
DueBefore(a, b) ==
    \/ a.scheduled < b.scheduled
    \/ a.scheduled = b.scheduled /\ a.rank <= b.rank

\* a sequence without its i-th element
Without(q, i) == SubSeq(q, 1, i - 1) \o SubSeq(q, i + 1, Len(q))

\* a call s.ScheduleForDate(date): its ScheduleAt calls reach the job-ready
\* engine
Schedule(date) ==
    \E order \in Orders :
        LET calls == ScheduleForDate(date, order)
        IN  /\ ready' = Arm(calls)
            /\ armed' = armed + Len(calls)
            /\ planned' = Append(planned, [date |-> date, upto |-> armed + Len(calls)])

\* t0 := time.Now(); s.ScheduleForDate(t0); sched.ScheduleAt(t0, t0), and the
\* goroutine of the loop starts
RunStart ==
    /\ svc = "start"
    /\ Schedule(now)
    /\ rollover' = rollover \cup {now}
    /\ svc' = "select"
    /\ UNCHANGED <<shared, mtx, daemon, counters, handlers, runners, stops, scheduleq,
                   runq, now, web, config, started, ticks, jobs, ran>>

\* the rollover engine delivers its earliest pending event once its time has
\* come and scheduleq has room
RolloverTick ==
    /\ stops.roll = 0
    /\ ticks = <<>>
    /\ \E t \in rollover :
          /\ t <= now
          /\ \A u \in rollover : t <= u
          /\ rollover' = rollover \ {t}
          /\ ticks' = <<t>>
    /\ scheduleq' = scheduleq + 1
    /\ UNCHANGED <<shared, mtx, daemon, counters, handlers, runners, svc, stops, runq,
                   now, web, config, started, ready, jobs, planned, ran, armed>>

\* the job-ready engine delivers its earliest pending event once its time has
\* come; among events of the same time the one armed first goes first
JobReady ==
    /\ stops.job = 0
    /\ \E i \in DOMAIN ready :
          /\ ready[i].scheduled <= now
          /\ \A j \in DOMAIN ready : DueBefore(ready[i], ready[j])
          /\ ready' = Without(ready, i)
          /\ jobs' = Append(jobs, ready[i])
    /\ runq' = runq + 1
    /\ UNCHANGED <<shared, mtx, daemon, counters, handlers, runners, svc, stops,
                   scheduleq, now, web, config, started, rollover, ticks, planned, ran, armed>>

\* case t := <-scheduleq: t = s.NextDay(t); s.ScheduleForDate(t);
\* sched.ScheduleAt(t, t)
SvcReplan ==
    /\ svc = "select"
    /\ ticks # <<>>
    /\ LET t == NextDay(Head(ticks))
       IN  /\ Schedule(t)
           /\ rollover' = rollover \cup {t}
    /\ ticks' = Tail(ticks)
    /\ scheduleq' = scheduleq - 1
    /\ UNCHANGED <<shared, mtx, daemon, counters, handlers, runners, svc, stops, runq,
                   now, web, config, started, jobs, ran>>

\* mutation: the loop takes the event that was delivered last
SvcExecuteTakesLast ==
    /\ svc = "select"
    /\ jobs # <<>>
    /\ ran' = jobs[Len(jobs)]
    /\ jobs' = SubSeq(jobs, 1, Len(jobs) - 1)
    /\ runq' = runq - 1
    /\ svc' = "exec"
    /\ UNCHANGED <<shared, mtx, daemon, counters, handlers, runners, stops, scheduleq,
                   now, web, config, started, rollover, ready, ticks, planned, armed>>

\* case schedJob := <-runq: schedJob.job.Execute(..., schedJob.scheduled) is
\* called
SvcExecute ==
    /\ svc = "select"
    /\ jobs # <<>>
    /\ ran' = Head(jobs)
    /\ jobs' = Tail(jobs)
    /\ runq' = runq - 1
    /\ svc' = "exec"
    /\ UNCHANGED <<shared, mtx, daemon, counters, handlers, runners, stops, scheduleq,
                   now, web, config, started, rollover, ready, ticks, planned, armed>>

\* the sequences of at most n schedules
Schedules(n) == UNION {[1..m -> Masks] : m \in 0..n}

RECURSIVE Sum(_, _)
\* the sum of f over the set S
Sum(f, S) == IF S = {} THEN 0
             ELSE LET x == CHOOSE y \in S : TRUE IN f[x] + Sum(f, S \ {x})

\* the configurations of the service: at most MaxSchedules schedules in all
Configs ==
    {c \in [JobNames -> Schedules(MaxSchedules)] :
        Sum([j \in JobNames |-> Len(c[j])], JobNames) <= MaxSchedules}

\* Run has started both engines and is about to read the clock, some time
\* during the first day; the Task Runner Loops are left aside
InitService ==
    /\ schedulerCtx = 1
    /\ schedulerConfig = 1
    /\ schedulerState = AGENT_SCHEDULER_RUNNING
    /\ mtx = 0
    /\ nextCtx = 1
    /\ cancelled = {}
    /\ launched = <<[ctx |-> 1, cfg |-> 1]>>
    /\ exited = {}
    /\ configured = TRUE
    /\ agentCancelled = FALSE
    /\ listenerClosed = FALSE
    /\ panicked = FALSE
    /\ serveErr = Serving
    /\ inflight = 0
    /\ nextID = 2
    /\ pc = [c \in Conns |-> "idle"]
    /\ request = [c \in Conns |-> NoRequest]
    /\ response = [c \in Conns |-> NoResponse]
    /\ schedConfig = [c \in Conns |-> Nil]
    /\ pre = [c \in Conns |-> NoSnapshot]
    /\ post = [c \in Conns |-> NoSnapshot]
    /\ acts = [c \in Conns |-> <<>>]
    /\ taskset = [k \in Kinds |-> NoTask]
    /\ lpc = [k \in Kinds |-> "none"]
    /\ store = [k \in Kinds |-> NoHandle]
    /\ repo = [k \in Kinds |-> NoHandle]
    /\ report = [k \in Kinds |-> <<>>]
    /\ outcome = [k \in Kinds |-> NoOutcome]
    /\ timer = [k \in Kinds |-> NoTime]
    /\ ticked = [k \in Kinds |-> NoTime]
    /\ snapshot = [k \in Kinds |-> NoTime]
    /\ before = [k \in Kinds |-> NoTime]
    /\ svc = "start"
    /\ stops = [roll |-> 0, job |-> 0]
    /\ scheduleq = 0
    /\ runq = 0
    /\ now \in 0..(DayLen - 1)
    /\ config \in Configs
    /\ started = [roll |-> "ok", job |-> "ok"]
    /\ rollover = {}
    /\ ready = <<>>
    /\ ticks = <<>>
    /\ jobs = <<>>
    /\ planned = <<>>
    /\ ran = NoEvent
    /\ armed = 0
    /\ HubAbsent

\* the service for as long as nothing cancels its context
NextService ==
    \/ Advance
    \/ RunStart
    \/ RolloverTick
    \/ JobReady
    \/ SvcReplan
    \/ SvcExecute
    \/ SvcJobDone

SpecService == InitService /\ [][NextService]_vars

\* ---- Run from its first statement ------------------------------------------

\* mutation: the error of the second Start() is ignored
StartRolloverEngineIgnoresError ==
    /\ svc = "engine"
    /\ \E err \in BOOLEAN :
          started' = [started EXCEPT !.roll = IF err THEN "error" ELSE "ok"]
    /\ svc' = "start"
    /\ UNCHANGED <<shared, mtx, daemon, counters, handlers, runners, stops, scheduleq,
                   runq, now, web, config, rollover, ready, ticks, jobs, planned, ran, armed>>

\* stopped, err := s.sched.Start() on the job-ready engine: on an error Run
\* logs it and returns, which is the position "failed"
StartJobEngine ==
    /\ svc = "run"
    /\ \E err \in BOOLEAN :
          /\ started' = [started EXCEPT !.job = IF err THEN "error" ELSE "ok"]
          /\ svc' = IF err THEN "failed" ELSE "engine"
    /\ UNCHANGED <<shared, mtx, daemon, counters, handlers, runners, stops, scheduleq,
                   runq, now, web, config, rollover, ready, ticks, jobs, planned, ran, armed>>

\* _, err = sched.Start() on the rollover engine: on an error Run logs it and
\* returns
StartRolloverEngine ==
    /\ svc = "engine"
    /\ \E err \in BOOLEAN :
          /\ started' = [started EXCEPT !.roll = IF err THEN "error" ELSE "ok"]
          /\ svc' = IF err THEN "failed" ELSE "start"
    /\ UNCHANGED <<shared, mtx, daemon, counters, handlers, runners, stops, scheduleq,
                   runq, now, web, config, rollover, ready, ticks, jobs, planned, ran, armed>>

\* Run is called on a new service, some time during the first day: no engine
\* exists yet; the Task Runner Loops are left aside
InitRun ==
    /\ schedulerCtx = 1
    /\ schedulerConfig = 1
    /\ schedulerState = AGENT_SCHEDULER_RUNNING
    /\ mtx = 0
    /\ nextCtx = 1
    /\ cancelled = {}
    /\ launched = <<[ctx |-> 1, cfg |-> 1]>>
    /\ exited = {}
    /\ configured = TRUE
    /\ agentCancelled = FALSE
    /\ listenerClosed = FALSE
    /\ panicked = FALSE
    /\ serveErr = Serving
    /\ inflight = 0
    /\ nextID = 2
    /\ pc = [c \in Conns |-> "idle"]
    /\ request = [c \in Conns |-> NoRequest]
    /\ response = [c \in Conns |-> NoResponse]
    /\ schedConfig = [c \in Conns |-> Nil]
    /\ pre = [c \in Conns |-> NoSnapshot]
    /\ post = [c \in Conns |-> NoSnapshot]
    /\ acts = [c \in Conns |-> <<>>]
    /\ taskset = [k \in Kinds |-> NoTask]
    /\ lpc = [k \in Kinds |-> "none"]
    /\ store = [k \in Kinds |-> NoHandle]
    /\ repo = [k \in Kinds |-> NoHandle]
    /\ report = [k \in Kinds |-> <<>>]
    /\ outcome = [k \in Kinds |-> NoOutcome]
    /\ timer = [k \in Kinds |-> NoTime]
    /\ ticked = [k \in Kinds |-> NoTime]
    /\ snapshot = [k \in Kinds |-> NoTime]
    /\ before = [k \in Kinds |-> NoTime]
    /\ svc = "run"
    /\ stops = [roll |-> 0, job |-> 0]
    /\ scheduleq = 0
    /\ runq = 0
    /\ now \in 0..(DayLen - 1)
    /\ config \in Configs
    /\ started = [roll |-> "", job |-> ""]
    /\ rollover = {}
    /\ ready = <<>>
    /\ ticks = <<>>
    /\ jobs = <<>>
    /\ planned = <<>>
    /\ ran = NoEvent
    /\ armed = 0
    /\ HubAbsent

\* Run from its first statement on, for as long as nothing cancels the context
NextRun ==
    \/ StartJobEngine
    \/ StartRolloverEngine
    \/ Advance
    \/ RunStart
    \/ RolloverTick
    \/ JobReady
    \/ SvcReplan
    \/ SvcExecute
    \/ SvcJobDone

SpecRun == InitRun /\ [][NextRun]_vars

\* ---- ScheduleForDate on its own --------------------------------------------

\* ScheduleForDate is called with some date, whoever calls it
Plan ==
    /\ Len(planned) < MaxPlans
    /\ \E date \in Times : Schedule(date)
    /\ UNCHANGED <<shared, mtx, daemon, counters, handlers, runners, svc, stops,
                   scheduleq, runq, now, web, config, started, rollover, ticks, jobs, ran>>

\* the configured service and nothing but calls of ScheduleForDate
SpecPlan == InitService /\ [][Plan]_vars

TypeOKService ==
    /\ svc \in {"start", "select", "exec"}
    /\ scheduleq = Len(ticks) /\ scheduleq <= 1
    /\ runq = Len(jobs)
    /\ now \in Times

TypeOKTasks ==
    /\ lpc \in [Kinds -> {"none", "launch", "wait", "load", "report", "op", "purge",
                          "close", "exited"}]
    /\ \A k \in Kinds : store[k].opened \in 0..1 /\ repo[k].opened \in 0..1

\* ---- vocabulary of the properties ----------------------------------------

\* positions of a handler between mtx.Lock() and the deferred mtx.Unlock()
CriticalSection ==
    {"start_config", "start_state", "start_newctx", "start_go", "start_set",
     "stop_state", "stop_cancel", "stop_set", "stop_clear",
     "cfg_test", "cfg_cancel", "cfg_newctx", "cfg_go", "cfg_store"}
WaitingForLock == {"start_lock", "stop_lock", "cfg_lock"}

\* the handler of connection c has produced its Response
Answered(c) == response[c].ExitCode # -1
AnsweredAs(c, type) == Answered(c) /\ request[c].Type = type

Ok == [ExitCode |-> 0, Err |-> ""]
Failure(err) == [ExitCode |-> 1, Err |-> err]

\* the names of the writes a handler made, in order
Ops(c) == [i \in DOMAIN acts[c] |-> acts[c][i].op]

\* the services launched on context x
ServicesOn(x) == {i \in DOMAIN launched : launched[i].ctx = x}

\* ---- C1 --------------------------------------------------------------------
\* C1: in every reachable state at most one launched scheduler context has not
\* been cancelled, and every launch but the first comes after Cancel() of the
\* context launched before it.
C1_AtMostOneActiveContext ==
    /\ Cardinality({i \in DOMAIN launched : launched[i].ctx \notin cancelled}) <= 1
    /\ \A i \in DOMAIN launched : i > 1 => launched[i - 1].ctx \in cancelled

\* a second service has been launched and is alive, its predecessor cancelled
C1_Witness ==
    /\ Len(launched) >= 2
    /\ launched[1].ctx \in cancelled
    /\ launched[Len(launched)].ctx \notin cancelled

\* ---- C2 --------------------------------------------------------------------
\* what one request does to a singleton s when nothing else runs
SeqOutcome(req, s) ==
    IF req.Type = "start"
    THEN IF s.config = Nil
         THEN [err |-> ErrNoConfig, state |-> s.state, config |-> s.config, ops |-> <<>>]
         ELSE IF IsRunning(s.state)
         THEN [err |-> ErrAlreadyRunning, state |-> s.state, config |-> s.config,
               ops |-> <<>>]
         ELSE [err |-> "", state |-> AGENT_SCHEDULER_RUNNING, config |-> s.config,
               ops |-> <<"new", "go", "running">>]
    ELSE IF req.Type = "stop"
    THEN IF ~IsRunning(s.state)
         THEN [err |-> ErrNotRunning, state |-> s.state, config |-> s.config, ops |-> <<>>]
         ELSE [err |-> "", state |-> AGENT_SCHEDULER_STOPPED, config |-> s.config,
               ops |-> <<"cancel", "stopped", "clear">>]
    ELSE IF s.ctx # Nil
         THEN [err |-> "", state |-> s.state,
               config |-> ParseConfigBytes(req.Payload).cfg,
               ops |-> <<"cancel", "new", "go", "config">>]
         ELSE [err |-> "", state |-> s.state,
               config |-> ParseConfigBytes(req.Payload).cfg,
               ops |-> <<"config">>]

\* the context a handler leaves in the singleton, given the writes it made
CtxAfter(c) ==
    IF \E i \in DOMAIN acts[c] : acts[c][i].op = "clear"
    THEN Nil
    ELSE IF \E i \in DOMAIN acts[c] : acts[c][i].op = "new"
    THEN (CHOOSE a \in {acts[c][i] : i \in DOMAIN acts[c]} : a.op = "new").ctx
    ELSE pre[c].ctx

\* C2: start, stop and configure check and mutate the singleton inside one
\* critical section of its mutex: only the mutex holder is between Lock and
\* Unlock, every answered request left exactly the result its sequential
\* execution on the singleton it found would leave, and of two start requests
\* in flight together on a stopped, configured daemon exactly one succeeds
\* while the other fails with "agent scheduler already running".
C2_RequestsAreAtomic ==
    /\ \A c \in Conns : pc[c] \in CriticalSection => mtx = c
    /\ \A c \in Conns :
          (Answered(c) /\ pre[c] # NoSnapshot) =>
             LET o == SeqOutcome(request[c], pre[c]) IN
               /\ response[c] = (IF o.err = "" THEN Ok ELSE Failure(o.err))
               /\ Ops(c) = o.ops
               /\ post[c] = [ctx |-> CtxAfter(c), config |-> o.config, state |-> o.state]
    /\ \A c, d \in Conns :
          (/\ c # d
           /\ pc[c] = "respond" /\ pc[d] = "respond"
           /\ request[c].Type = "start" /\ request[d].Type = "start"
           /\ cancelled = {}
           /\ pre[c].config # Nil /\ pre[d].config # Nil
           /\ ~IsRunning(pre[c].state))
          => /\ response[c] = Ok
             /\ response[d] = Failure(ErrAlreadyRunning)
             /\ Len(launched) = 1

\* two start requests were in flight together on a stopped, configured daemon
\* and both have their answer
C2_Witness ==
    \E c, d \in Conns :
        /\ c # d
        /\ pc[c] = "respond" /\ pc[d] = "respond"
        /\ request[c].Type = "start" /\ request[d].Type = "start"
        /\ cancelled = {}
        /\ response[c] = Ok
        /\ response[d] = Failure(ErrAlreadyRunning)

\* ---- C3 --------------------------------------------------------------------
\* C3: the stored configuration is nil exactly as long as no configure request
\* has succeeded, and a start request that finds it nil is answered with exit
\* code 1 and "agent scheduler does not have a configuration", having created
\* no context, launched no service and left the singleton STOPPED as it was.
C3_StartWithoutConfiguration ==
    /\ configured <=> (schedulerConfig # Nil)
    /\ \A c \in Conns :
          (AnsweredAs(c, "start") /\ pre[c].config = Nil) =>
             /\ response[c] = Failure(ErrNoConfig)
             /\ acts[c] = <<>>
             /\ post[c] = pre[c]
             /\ post[c].state = AGENT_SCHEDULER_STOPPED
             /\ post[c].ctx = Nil

C3_Witness ==
    \E c \in Conns :
        /\ AnsweredAs(c, "start")
        /\ ~configured
        /\ response[c] = Failure(ErrNoConfig)

\* ---- C4 --------------------------------------------------------------------
\* C4: a start request that finds the state RUNNING is answered with exit code
\* 1 and "agent scheduler already running"; it writes nothing: no context, no
\* launch, no cancellation, and the singleton is as it found it.
C4_StartWhileRunning ==
    \A c \in Conns :
        (AnsweredAs(c, "start") /\ IsRunning(pre[c].state)) =>
           /\ response[c] = Failure(ErrAlreadyRunning)
           /\ acts[c] = <<>>
           /\ post[c] = pre[c]

\* the rejected start left the running scheduler's context alive
C4_Witness ==
    \E c \in Conns :
        /\ AnsweredAs(c, "start")
        /\ IsRunning(pre[c].state)
        /\ pc[c] = "respond"
        /\ schedulerCtx = pre[c].ctx
        /\ schedulerCtx \notin cancelled

\* ---- C5 --------------------------------------------------------------------
\* C5: a stop request that finds the state STOPPED is answered with exit code 1
\* and "agent scheduler not running" and leaves context reference,
\* configuration and run state as it found them.
C5_StopWhileStopped ==
    \A c \in Conns :
        (AnsweredAs(c, "stop") /\ ~IsRunning(pre[c].state)) =>
           /\ response[c] = Failure(ErrNotRunning)
           /\ acts[c] = <<>>
           /\ post[c] = pre[c]

\* a stop is rejected on a daemon that holds a configuration
C5_Witness ==
    \E c \in Conns :
        /\ AnsweredAs(c, "stop")
        /\ ~IsRunning(pre[c].state)
        /\ pre[c].config # Nil
        /\ response[c] = Failure(ErrNotRunning)

\* ---- C6 --------------------------------------------------------------------
\* C6: a start request that finds the state STOPPED and a stored configuration
\* is answered with exit code 0; it derived one new context, launched exactly
\* one service on that context under the stored configuration, then set the
\* state to RUNNING, and nothing else.
C6_StartWhileStopped ==
    \A c \in Conns :
        (AnsweredAs(c, "start") /\ ~IsRunning(pre[c].state) /\ pre[c].config # Nil) =>
           /\ response[c] = Ok
           /\ Len(acts[c]) = 3
           /\ acts[c][1].op = "new"
           /\ acts[c][1].ctx \notin {Nil, pre[c].ctx}
           /\ acts[c][2] = Act("go", acts[c][1].ctx, pre[c].config)
           /\ acts[c][3].op = "running"
           /\ post[c] = [ctx |-> acts[c][1].ctx, config |-> pre[c].config,
                         state |-> AGENT_SCHEDULER_RUNNING]
           /\ Cardinality(ServicesOn(post[c].ctx)) = 1
           /\ \A i \in ServicesOn(post[c].ctx) : launched[i].cfg = pre[c].config

\* a start has succeeded while another request was waiting for the mutex
C6_Witness ==
    \E c, d \in Conns :
        /\ AnsweredAs(c, "start")
        /\ response[c] = Ok
        /\ launched[Len(launched)].ctx = post[c].ctx
        /\ pc[d] \in WaitingForLock

\* ---- C7 --------------------------------------------------------------------
\* C7: a stop request that finds the state RUNNING is answered with exit code
\* 0; it cancelled the active context, set the state to STOPPED and cleared the
\* context reference, kept the configuration, and no step of it up to and
\* including the writing of the response waits for the cancelled service.
C7_StopWhileRunning ==
    /\ \A c \in Conns :
          (AnsweredAs(c, "stop") /\ IsRunning(pre[c].state)) =>
             /\ response[c] = Ok
             /\ acts[c] = <<Act("cancel", pre[c].ctx, Nil), Act("stopped", Nil, Nil),
                            Act("clear", Nil, Nil)>>
             /\ pre[c].ctx \in cancelled
             /\ post[c] = [ctx |-> Nil, config |-> pre[c].config,
                           state |-> AGENT_SCHEDULER_STOPPED]
    /\ \A c \in Conns :
          /\ pc[c] = "stop_cancel" => ENABLED StopCancel(c)
          /\ pc[c] = "stop_set" => ENABLED StopSetState(c)
          /\ pc[c] = "stop_clear" => ENABLED StopClearCtx(c)
          /\ pc[c] = "respond" => ENABLED WriteResponse(c)

\* the stop has returned and its response can be written while the service it
\* cancelled is still running
C7_Witness ==
    \E c \in Conns :
        /\ AnsweredAs(c, "stop")
        /\ response[c] = Ok
        /\ pc[c] = "respond"
        /\ \E i \in ServicesOn(pre[c].ctx) : i \notin exited

\* ---- C8 --------------------------------------------------------------------
\* C8: a configure request with a well-formed payload that finds the state
\* RUNNING is answered with exit code 0; it cancelled the previous context
\* once, then derived one new context, then launched one service on it under
\* the new configuration, then stored the new configuration; the state is
\* RUNNING at every step of it.
C8_ConfigureWhileRunning ==
    /\ \A c \in Conns :
          (AnsweredAs(c, "configure") /\ response[c] = Ok /\ IsRunning(pre[c].state)) =>
             LET cfg == ParseConfigBytes(request[c].Payload).cfg IN
               /\ Len(acts[c]) = 4
               /\ acts[c][1] = Act("cancel", pre[c].ctx, Nil)
               /\ acts[c][2].op = "new"
               /\ acts[c][2].ctx \notin {Nil, pre[c].ctx}
               /\ acts[c][3] = Act("go", acts[c][2].ctx, cfg)
               /\ acts[c][4] = Act("config", Nil, cfg)
               /\ pre[c].ctx \in cancelled
               /\ post[c] = [ctx |-> acts[c][2].ctx, config |-> cfg,
                             state |-> AGENT_SCHEDULER_RUNNING]
               /\ Cardinality(ServicesOn(post[c].ctx)) = 1
               /\ \A i \in ServicesOn(post[c].ctx) : launched[i].cfg = cfg
    /\ \A c \in Conns :
          (request[c].Type = "configure" /\ ~ParseConfigBytes(request[c].Payload).err
           /\ Answered(c) /\ IsRunning(pre[c].state)) => response[c] = Ok
    /\ \A c \in Conns :
          (pc[c] \in {"cfg_test", "cfg_cancel", "cfg_newctx", "cfg_go", "cfg_store"}
           /\ IsRunning(pre[c].state)) => IsRunning(schedulerState)

\* a running scheduler was reconfigured with a configuration other than the
\* one it ran under
C8_Witness ==
    \E c \in Conns :
        /\ AnsweredAs(c, "configure")
        /\ response[c] = Ok
        /\ IsRunning(pre[c].state)
        /\ pre[c].config # post[c].config
        /\ pre[c].ctx \notin {Nil, post[c].ctx}

\* ---- C9 --------------------------------------------------------------------
\* C9: a configure request with a well-formed payload is answered with exit
\* code 0 and its last write stores the new configuration, whatever the run
\* state; when it finds the state STOPPED that is its only write: no context,
\* no launch, state still STOPPED.
C9_ConfigureAlwaysStores ==
    \A c \in Conns :
        (AnsweredAs(c, "configure") /\ ~ParseConfigBytes(request[c].Payload).err) =>
           LET cfg == ParseConfigBytes(request[c].Payload).cfg IN
             /\ response[c] = Ok
             /\ post[c].config = cfg
             /\ acts[c] # <<>>
             /\ acts[c][Len(acts[c])] = Act("config", Nil, cfg)
             /\ ~IsRunning(pre[c].state) =>
                   /\ acts[c] = <<Act("config", Nil, cfg)>>
                   /\ post[c] = [ctx |-> Nil, config |-> cfg,
                                 state |-> AGENT_SCHEDULER_STOPPED]
                   /\ pre[c].ctx = Nil

\* a stopped daemon that already held a configuration received another one
C9_Witness ==
    \E c \in Conns :
        /\ AnsweredAs(c, "configure")
        /\ response[c] = Ok
        /\ ~IsRunning(pre[c].state)
        /\ pre[c].config \notin {Nil, post[c].config}

\* ---- C10 -------------------------------------------------------------------
\* C10: a request answered with a non-zero exit code carries a non-empty error
\* message and has written nothing: it cancelled no context, launched nothing,
\* and if it took the mutex the singleton is as it found it.
C10_FailedRequestChangesNothing ==
    \A c \in Conns :
        (Answered(c) /\ response[c].ExitCode # 0) =>
           /\ response[c].Err # ""
           /\ acts[c] = <<>>
           /\ post[c] = pre[c]

\* a malformed configure is rejected while a scheduler is running, and that
\* scheduler's context is still alive
C10_Witness ==
    \E c \in Conns :
        /\ AnsweredAs(c, "configure")
        /\ response[c] = Failure(ErrParse)
        /\ pc[c] = "respond"
        /\ IsRunning(schedulerState)
        /\ schedulerCtx \notin cancelled

\* ---- C11 -------------------------------------------------------------------
\* positions of a handler whose request has been dispatched
Dispatched == CriticalSection \cup WaitingForLock \cup {"cfg_parse", "terminate"}

\* the process has ended, by a panic or by the return of Execute
Ended == {"panic", "exit"}

\* the order of the steps of handleClient on connection c
StepOrder(c) ==
    \/ pc[c] = "idle" /\ pc'[c] = "readvers"
    \/ pc[c] = "readvers" /\ pc'[c] \in {"writevers", "idle"}
    \/ pc[c] = "writevers" /\ pc'[c] \in {"readreq", "idle"}
    \/ /\ pc[c] = "readreq"
       /\ \/ pc'[c] = "idle"
          \/ request'[c] # NoRequest /\ pc'[c] = Handler(request'[c].Type)
    \/ pc[c] \in Dispatched /\ pc'[c] \in Dispatched \cup {"respond"}
    \/ pc[c] = "respond" /\ pc'[c] = "idle"
    \/ pc'[c] \in Ended

\* C11: on every connection the steps are taken in the order read version,
\* write version, read request, dispatch, write response, close, each at most
\* once; one request at most is decoded and dispatched, and only after the
\* version exchange; the connection is closed after a written response exactly
\* when a request was decoded; a handshake or decoding step, failed or not,
\* leaves the singleton, the cancelled contexts and the launched services alone.
C11_ConnectionProtocol ==
    [][\A c \in Conns :
          /\ pc'[c] # pc[c] => StepOrder(c)
          /\ request'[c] # request[c] =>
                \/ pc[c] = "readreq" /\ request[c] = NoRequest
                \/ pc'[c] \in {"idle"} \cup Ended
          /\ pc'[c] \in Dispatched \cup {"respond"} => request'[c] # NoRequest
          /\ pc'[c] = "respond" => response'[c] # NoResponse
          /\ (pc[c] # "idle" /\ pc'[c] = "idle") =>
                (pc[c] = "respond" <=> request[c] # NoRequest)
          /\ (pc[c] \in {"readvers", "writevers", "readreq"} /\ pc'[c] # pc[c]) =>
                UNCHANGED <<schedulerCtx, schedulerConfig, schedulerState,
                            cancelled, launched>>
    ]_vars

\* a configure request went through the whole exchange and its response is
\* about to be written, after an earlier connection changed the singleton
C11_Witness ==
    \E c \in Conns :
        /\ pc[c] = "respond"
        /\ request[c].Type = "configure"
        /\ response[c] = Ok
        /\ nextID > 1

\* ---- C12 -------------------------------------------------------------------
\* C12: a terminate request is handled in whatever state the singleton is (it
\* takes no lock and waits for nothing); it is answered with exit code 0 and
\* the daemon context cancelled when the shutdown trigger returns no error,
\* with a non-zero exit code and the trigger's error otherwise; it reads and
\* writes nothing of the singleton.
C12_TerminateIgnoresRunState ==
    /\ [](\A c \in Conns : pc[c] = "terminate" => ENABLED Terminate(c))
    /\ [][\A c \in Conns :
            (pc[c] = "terminate" /\ pc'[c] = "respond") =>
               /\ \/ response'[c] = Ok /\ agentCancelled'
                  \/ response'[c] = Failure(ErrStop) /\ UNCHANGED agentCancelled
               /\ pre'[c] = NoSnapshot
               /\ acts'[c] = <<>>
               /\ UNCHANGED <<schedulerCtx, schedulerConfig, schedulerState, mtx,
                              cancelled, launched>>
       ]_vars

\* terminate has succeeded while a scheduler is running
C12_Witness ==
    \E c \in Conns :
        /\ AnsweredAs(c, "terminate")
        /\ response[c] = Ok
        /\ pc[c] = "respond"
        /\ agentCancelled
        /\ IsRunning(schedulerState)
        /\ schedulerCtx \notin cancelled

\* ---- C13 -------------------------------------------------------------------
\* C13: once the daemon context is cancelled and the listener closed, the
\* return of the accept loop makes Execute end with exit status 0.
C13_GracefulStop ==
    (agentCancelled /\ listenerClosed /\ serveErr # Serving) => ExitStatus = 0

\* ---- C15 -------------------------------------------------------------------
\* a handle opened once and closed once
Released == [opened |-> 1, closed |-> 1]

\* the terminal calls made on the Report of the tick of loop k, in order
Terminals(k) ==
    SelectSeq(report[k], LAMBDA call : call \in {"TaskDone", "TaskWarning", "TaskFailed"})

\* C15: in every loop no handle is closed that is not open, and whenever the
\* loop waits for its next tick the storage handle and the repository handle
\* of the tick it has finished have been closed as often as they were opened,
\* at most once; a tick whose load failed opened no repository.
C15_HandlesClosedOnce ==
    \A k \in Kinds :
        /\ store[k].opened <= 1 /\ store[k].closed <= store[k].opened
        /\ repo[k].opened <= 1 /\ repo[k].closed <= repo[k].opened
        /\ lpc[k] \in {"wait", "exited"} =>
              /\ store[k].closed = store[k].opened
              /\ repo[k].closed = repo[k].opened
        /\ outcome[k].load = "failed" => repo[k] = NoHandle
        /\ outcome[k].op # "" /\ lpc[k] = "wait" => store[k] = Released /\ repo[k] = Released

\* one loop has closed both handles after an operation that was in flight
\* when the context was cancelled, another waits after a load that failed
\* with the storage open
C15_Witness ==
    \E k, j \in Kinds :
        /\ lpc[k] = "wait" /\ outcome[k].op # "" /\ store[k] = Released
        /\ lpc[j] = "wait" /\ outcome[j].load = "failed" /\ store[j] = Released
        /\ Done(sCtx)

\* ---- C16 -------------------------------------------------------------------
\* C16: a tick whose repository loaded and whose primary operation failed has
\* one terminal call on its report, TaskFailed, and no other tick has that
\* call; no purge was run on it; its next step closes the repository.
C16_FailedOperation ==
    \A k \in Kinds :
        /\ outcome[k].op = "failed" =>
              /\ outcome[k].load = "ok"
              /\ Terminals(k) = <<"TaskFailed">>
              /\ outcome[k].purge = ""
              /\ lpc[k] \in {"close", "wait"}
              /\ lpc[k] = "close" => ENABLED Close(k)
              /\ lpc[k] = "wait" => repo[k] = Released
        /\ (\E i \in DOMAIN report[k] : report[k][i] = "TaskFailed") =>
              outcome[k].op = "failed"

\* a loop with a purge configured waits again after a failed operation
C16_Witness ==
    \E k \in Kinds :
        /\ HasPurge(k)
        /\ taskset[k].Retention # 0
        /\ outcome[k].op = "failed"
        /\ lpc[k] = "wait"
        /\ repo[k] = Released

\* ---- C17 -------------------------------------------------------------------
\* the tick of loop k had a transient error
Failed(k) ==
    outcome[k].load = "failed" \/ outcome[k].op = "failed" \/ outcome[k].purge = "failed"

\* C17: a loop has ended only if its context is cancelled (a sync loop with an
\* unknown direction cancels it itself, and only at launch); a loop whose tick
\* failed is closing its handles or waiting for the next tick; every launched
\* loop, whatever failed on its ticks, ticks infinitely often unless the
\* context gets cancelled.
C17_TransientErrorsNeverStop ==
    /\ [](\A k \in Kinds :
            /\ lpc[k] = "exited" => Done(sCtx)
            /\ Failed(k) => lpc[k] \in {"close", "wait"})
    /\ [][\A k \in Kinds :
            (lpc[k] # "exited" /\ lpc'[k] = "exited") =>
               \/ lpc[k] = "wait" /\ Done(sCtx)
               \/ lpc[k] = "launch" /\ k = "sync" /\ taskset[k].Direction = "sideways"
       ]_vars
    /\ \A k \in Kinds : []<>(lpc[k] = "load" \/ lpc[k] = "none" \/ Done(sCtx))

\* in a live context one loop waits after a failed operation and another
\* after a failed purge
C17_Witness ==
    \E k, j \in Kinds :
        /\ lpc[k] = "wait" /\ outcome[k].op = "failed"
        /\ lpc[j] = "wait" /\ outcome[j].purge = "failed"
        /\ ~Done(sCtx)

\* ---- C18 -------------------------------------------------------------------
\* C18: a tick whose repository load failed has logged the error, has made no
\* call on any report, has started neither operation nor purge, and its loop
\* waits for the next tick, which it can take.
C18_LoadFailureSkipsTick ==
    \A k \in Kinds :
        outcome[k].load = "failed" =>
           /\ outcome[k].logged
           /\ report[k] = <<>>
           /\ outcome[k].op = "" /\ outcome[k].purge = ""
           /\ lpc[k] = "wait"
           /\ ENABLED Tick(k)

\* a load failed after the storage was opened, in a live context
C18_Witness ==
    \E k \in Kinds :
        /\ outcome[k].load = "failed"
        /\ store[k] = Released
        /\ lpc[k] = "wait"
        /\ ~Done(sCtx)

\* ---- C19 -------------------------------------------------------------------
\* C19, as stated: a tick whose repository load failed has one report, whose
\* terminal outcome is failed.
C19_LoadFailureReportedFailed ==
    \A k \in Kinds :
        outcome[k].load = "failed" => Terminals(k) = <<"TaskFailed">>

\* C19, amended: a repository load failure is logged and nothing else: the
\* tick has no report at all, so the reports that end as failed are those of
\* the ticks whose primary operation failed.
C19_LoadFailureOnlyLogged ==
    \A k \in Kinds :
        /\ outcome[k].load = "failed" => outcome[k].logged /\ Len(report[k]) = 0
        /\ Terminals(k) = <<"TaskFailed">> <=> outcome[k].op = "failed"
        /\ Len(report[k]) > 0 => outcome[k].load = "ok"

\* a load failed before any storage was opened, and the loop waits
C19_Witness ==
    \E k \in Kinds :
        /\ outcome[k].load = "failed"
        /\ store[k] = NoHandle
        /\ report[k] = <<>>
        /\ lpc[k] = "wait"

\* ---- C20 -------------------------------------------------------------------
\* C20: a tick whose purge failed is a tick of the backup or the maintenance
\* loop whose primary operation succeeded, and the one terminal call on its
\* report is TaskWarning.
C20_PurgeFailureWarns ==
    \A k \in Kinds :
        outcome[k].purge = "failed" =>
           /\ HasPurge(k)
           /\ outcome[k].op \in {"ok", "warning"}
           /\ Terminals(k) = <<"TaskWarning">>

\* the purge has failed in the backup loop and in the maintenance loop, after
\* a backup without warning
C20_Witness ==
    /\ outcome["backup"].purge = "failed"
    /\ outcome["backup"].op = "ok"
    /\ outcome["maintenance"].purge = "failed"
    /\ lpc["backup"] = "wait"
    /\ lpc["maintenance"] = "wait"

\* ---- C21 -------------------------------------------------------------------
\* rm with LocateOptions.Before = cutoff targets the snapshots whose timestamp
\* is before the cutoff
Obsolete(cutoff) == {t \in Times : t < cutoff}

\* the tick of loop k has run rm
Purged(k) == before[k] # NoTime

\* rm is run on a tick if and only if the loop is the backup or the
\* maintenance loop, its primary operation succeeded and Retention is not zero
PurgeIffSucceeded ==
    \A k \in Kinds :
        /\ Purged(k) => HasPurge(k) /\ outcome[k].op \in {"ok", "warning"}
                                    /\ taskset[k].Retention # 0
        /\ lpc[k] = "close" /\ HasPurge(k) /\ outcome[k].op \in {"ok", "warning"}
                            /\ taskset[k].Retention # 0
              => Purged(k)

\* the cutoff is the time of the purge step minus Retention, so rm targets the
\* snapshots older than that and none newer
CutoffAtPurge ==
    \A k \in Kinds :
        lpc[k] = "purge" /\ lpc'[k] # "purge"
           => /\ before'[k] = now - taskset[k].Retention
              /\ Obsolete(before'[k]) = {t \in Times : t < now - taskset[k].Retention}

\* at the purge step of the backup loop the snapshot of the tick is among the
\* targeted ones exactly when it is older than Retention
NewSnapshotByAge ==
    lpc["backup"] = "purge" /\ lpc'["backup"] # "purge"
       => (snapshot["backup"] \in Obsolete(before'["backup"])
             <=> now - snapshot["backup"] > taskset["backup"].Retention)

\* C21 as stated: rm is run if and only if the primary operation succeeded and
\* Retention is not zero, its cutoff is the time of the purge step minus
\* Retention, and the snapshot the tick has just made is never among the
\* snapshots it targets.
C21_PurgeSparesNewSnapshot ==
    /\ []PurgeIffSucceeded
    /\ [][CutoffAtPurge]_vars
    /\ [](Purged("backup") => snapshot["backup"] \notin Obsolete(before["backup"]))

\* C21, amended: rm is run if and only if the primary operation succeeded and
\* Retention is not zero, and its cutoff is the time of the purge step minus
\* Retention; the snapshot the tick has just made is targeted exactly when its
\* own timestamp is older than that cutoff, that is when more than Retention
\* has passed since that timestamp.
C21_PurgeByCutoff ==
    /\ []PurgeIffSucceeded
    /\ [][CutoffAtPurge /\ NewSnapshotByAge]_vars

\* a backup with a retention has returned at the second instant after the
\* timestamp of its snapshot, and rm has been run with a cutoff later than
\* that timestamp
C21_Witness ==
    /\ lpc["backup"] = "close"
    /\ taskset["backup"].Retention > 0
    /\ outcome["backup"].purge = "ok"
    /\ before["backup"] = now - taskset["backup"].Retention
    /\ snapshot["backup"] \in Obsolete(before["backup"])

\* ---- C22 -------------------------------------------------------------------
\* the last call made on the Report of loop k this tick
LastCall(k) == IF report[k] = <<>> THEN "" ELSE report[k][Len(report[k])]

\* the calls made on the Report of loop k this tick
Calls(k) == {report[k][i] : i \in DOMAIN report[k]}

\* C22: when a backup tick whose repository loaded comes to the closing of its
\* handles, its report is finalized as done if and only if DoBackup succeeded
\* without a warning and rm, if it was run, did not fail; it is finalized as a
\* warning if DoBackup succeeded with a warning and rm did not fail; in both
\* cases the snapshot identifier has been attached to the report.
C22_BackupDone ==
    lpc["backup"] = "close" =>
        /\ outcome["backup"].load = "ok"
        /\ LastCall("backup") = "TaskDone"
              <=> outcome["backup"].op = "ok" /\ outcome["backup"].purge # "failed"
        /\ outcome["backup"].op = "warning" /\ outcome["backup"].purge # "failed"
              => LastCall("backup") = "TaskWarning"
        /\ outcome["backup"].op \in {"ok", "warning"} /\ outcome["backup"].purge # "failed"
              => /\ "WithSnapshotID" \in Calls("backup")
                 /\ snapshot["backup"] # NoTime
                 /\ Cardinality({i \in DOMAIN report["backup"] :
                        report["backup"][i] \in {"TaskDone", "TaskWarning", "TaskFailed"}}) = 1

\* a backup with a warning and no purge is about to close its handles, its
\* report finalized as a warning with the snapshot identifier
C22_Witness ==
    /\ lpc["backup"] = "close"
    /\ taskset["backup"].Retention = 0
    /\ outcome["backup"].op = "warning"
    /\ report["backup"] = <<"TaskStart", "WithRepositoryName", "WithRepository",
                            "WithSnapshotID", "TaskWarning">>

\* ---- C23 -------------------------------------------------------------------
\* C23: once the context of the scheduler is cancelled no loop can take its
\* tick any more, so no repository load, and with it no report and no primary
\* operation, begins after the cancellation.
C23_NoTickAfterCancel ==
    Done(sCtx) => \A k \in Kinds : ~ENABLED Tick(k)

\* ---- C24 -------------------------------------------------------------------
\* the job has a sync task whose direction is none of to, from and with
UnknownDirection ==
    /\ taskset["sync"] # NoTask
    /\ taskset["sync"].Direction \notin
          {SyncDirectionTo, SyncDirectionFrom, SyncDirectionWith}

\* C24: a sync task with an unknown direction goes from its launch straight to
\* its return: it never waits for a tick, loads no repository and creates no
\* report; once it has returned the context of the scheduler is cancelled, the
\* Done() of every sibling loop is closed and a sibling that waits can leave.
C24_UnknownDirectionCancels ==
    UnknownDirection =>
        /\ lpc["sync"] \in {"launch", "exited"}
        /\ store["sync"] = NoHandle /\ repo["sync"] = NoHandle
        /\ report["sync"] = <<>> /\ outcome["sync"] = NoOutcome
        /\ lpc["sync"] = "exited" =>
              /\ sCtx \in cancelled
              /\ Done(sCtx)
              /\ \A k \in Kinds \ {"sync"} : lpc[k] = "wait" => ENABLED Exit(k)

\* the sync task has returned on its unknown direction, nothing else has
\* cancelled anything, and its sibling has left its loop after a tick
C24_Witness ==
    /\ UnknownDirection
    /\ lpc["sync"] = "exited"
    /\ ~agentCancelled
    /\ \E k \in Kinds \ {"sync"} : lpc[k] = "exited"

\* ---- C25 -------------------------------------------------------------------
\* the calendar day of an instant
Day(date) == date \div DayLen

\* C25: ScheduleForDate is called first with the start time, an instant of
\* today, and then with the midnight of each following day in turn, no day
\* skipped and none planned twice; the only rollover that is pending or
\* waiting on scheduleq is the one for the date planned last, so the next call
\* is for the day after it.
C25_OnePlanPerDay ==
    /\ svc = "start" => planned = <<>>
    /\ svc # "start" =>
          /\ planned # <<>>
          /\ planned[1].date <= now
          /\ \A i \in 2..Len(planned) :
                /\ planned[i].date = Midnight(planned[i].date)
                /\ planned[i].date > planned[i - 1].date
                /\ Day(planned[i].date) = Day(planned[i - 1].date) + 1
          /\ rollover \cup {ticks[i] : i \in DOMAIN ticks} = {planned[Len(planned)].date}
          /\ Cardinality(rollover) + Len(ticks) = 1

\* the service started in the course of the first day and has planned the
\* rest of that day and the two days after it
C25_Witness ==
    /\ Len(planned) = 3
    /\ planned[1].date = 1
    /\ planned[2].date = DayLen
    /\ planned[3].date = 2 * DayLen

C27_RolloverNotBlocked ==
    svc = "exec" /\ ticks # <<>> => ENABLED SvcReplan

\* ---- C30 -------------------------------------------------------------------
\* the instants ScheduleForDate can arm when called within the clock's days
PlanTimes == 0..(MaxTime + 2 * DayLen)

\* the schedules of job j whose plan for the date has the instant t
Planning(j, t, date) ==
    {k \in DOMAIN config[j] :
        \E i \in DOMAIN PlanForDate(config[j][k], date) :
            PlanForDate(config[j][k], date)[i] = t}

\* C30: a call of ScheduleForDate leaves the pending events as they were and
\* adds, for every job and instant not before the date, as many events of that
\* job at that instant as the job has schedules planning it, and no event
\* before the date; at startup the date is the start time.
C30_ArmsPlanFromDate ==
    [][planned' # planned =>
         LET date == planned'[Len(planned')].date
             new == SubSeq(ready', Len(ready) + 1, Len(ready'))
         IN  /\ SubSeq(ready', 1, Len(ready)) = ready
             /\ svc = "start" => date = now
             /\ \A i \in DOMAIN new :
                   /\ new[i].job \in JobNames
                   /\ new[i].scheduled \in PlanTimes
                   /\ ~(new[i].scheduled < date)
             /\ \A j \in JobNames, t \in PlanTimes :
                   Cardinality({i \in DOMAIN new : new[i].job = j /\ new[i].scheduled = t})
                     = IF t < date THEN 0 ELSE Cardinality(Planning(j, t, date))]_vars

\* the service started after the first instant of the day with two schedules
\* of one job that both plan every instant: the rest of the day was armed
\* twice, the instant before the start not at all
C30_Witness ==
    /\ svc = "select"
    /\ Len(planned) = 1
    /\ planned[1] = [date |-> 1, upto |-> 2 * (DayLen - 1)]
    /\ \E j \in JobNames : config[j] = <<0..(DayLen - 1), 0..(DayLen - 1)>>

\* ---- C29 -------------------------------------------------------------------
\* the events armed by the i-th call of ScheduleForDate, as job and instant
ArmedBy(i) ==
    {<<ready[n].job, ready[n].scheduled>> :
        n \in {m \in DOMAIN ready :
                  /\ ready[m].rank > (IF i = 1 THEN 0 ELSE planned[i - 1].upto)
                  /\ ready[m].rank <= planned[i].upto}}

C28_SingleShutdownPath ==
    /\ Done(sCtx) ~> svc = "exited"
    /\ [](svc \in {"out", "exited"} => Done(sCtx) /\ stops.roll > 0 /\ stops.job > 0)
    /\ [][/\ svc' = "out" /\ svc # "out" => svc = "select"
          /\ svc' = "exited" /\ svc # "exited" => svc = "out"
          /\ svc = "out" => svc' \in {"out", "exited"}
          /\ svc = "exited" => svc' = "exited"]_vars

\* the service loop has ended while a Task Runner Loop of the same scheduler
\* is still in the middle of a tick
C28_Witness ==
    /\ svc = "exited"
    /\ stops.roll > 0 /\ stops.job > 0
    /\ \E k \in Kinds : lpc[k] \in {"load", "report", "op", "purge", "close"}

\* ---- C14 -------------------------------------------------------------------
\* C14: the context of the scheduler is done as soon as the daemon context is
\* cancelled, and from then on the service loop eventually has called Stop()
\* on the rollover engine and on the job-ready engine, and every Task Runner
\* Loop eventually has returned.
C14_CancellationCascades ==
    /\ [](agentCancelled => Done(sCtx))
    /\ agentCancelled ~> /\ stops.roll > 0 /\ stops.job > 0
                         /\ \A k \in Kinds : lpc[k] \in {"none", "exited"}

\* the daemon context was cancelled, nothing else cancelled the scheduler's
\* context, both engines are stopped and two loops have returned
C14_Witness ==
    /\ agentCancelled
    /\ cancelled = {}
    /\ stops.roll > 0 /\ stops.job > 0
    /\ Cardinality({k \in Kinds : lpc[k] = "exited"}) = 2
    /\ \A k \in Kinds : lpc[k] \in {"none", "exited"}

\* ---- C31 -------------------------------------------------------------------
\* C31: once Start() has failed on the job-ready engine or on the rollover
\* engine, Run has logged the error and returned and stays so: ScheduleForDate
\* was never called, nothing is armed on either engine, nothing waits on
\* either channel, the service loop does not run and no job was executed.
\* A failure of the first Start() also means the second engine was never
\* started.
C31_StartFailureIsFatal ==
    /\ [](started.job = "error" \/ started.roll = "error" =>
            /\ svc = "failed"
            /\ planned = <<>> /\ armed = 0
            /\ rollover = {} /\ ready = <<>>
            /\ ticks = <<>> /\ jobs = <<>>
            /\ ran = NoEvent
            /\ started.job = "error" => started.roll = "")
    /\ [][svc = "failed" => svc' = "failed"]_vars

\* the job-ready engine was started, the rollover engine failed to start, and
\* time has passed since Run returned
C31_Witness ==
    /\ started = [roll |-> "error", job |-> "ok"]
    /\ svc = "failed"
    /\ now = MaxTime

\* ---- C32 -------------------------------------------------------------------
\* the loop k comes to its select and makes a timer: out of the body before
\* the `for`, or out of a tick whose processing has ended
Rearmed(k) == lpc[k] # "wait" /\ lpc'[k] = "wait"

\* the loop k takes a tick
Ticks(k) == lpc[k] # "load" /\ lpc'[k] = "load"

\* a tick is taken at the select, on a timer that exists and has expired
TickOnExpiry(k) ==
    Ticks(k) => /\ lpc[k] = "wait"
                /\ timer[k] # NoTime /\ timer[k] <= now
                /\ ticked'[k] = now

\* C32, as claimed: the first timer expires one Interval after the launch and
\* each later one one Interval after the tick before it; no tick is taken
\* before its timer has expired, and only at the select, when the tick before
\* has released its handles.
C32_FixedPeriod ==
    /\ [][\A k \in Kinds :
            /\ Rearmed(k) =>
                  timer'[k] = (IF ticked[k] = NoTime THEN now ELSE ticked[k])
                                 + taskset[k].Interval
            /\ TickOnExpiry(k)]_vars
    /\ [](\A k \in Kinds : lpc[k] = "wait" =>
            store[k].closed = store[k].opened /\ repo[k].closed = repo[k].opened)

\* C32, amended: every timer expires one Interval after it was made, which is
\* at the launch for the first and at the end of the processing of the tick
\* before (handles closed, or the load failure logged) for each later one; no
\* tick is taken before its timer has expired, so two ticks are at least one
\* Interval apart, and a tick is taken only at the select, when the tick
\* before has released its handles.
C32_IntervalAfterCompletion ==
    /\ [][\A k \in Kinds :
            /\ Rearmed(k) => timer'[k] = now + taskset[k].Interval
            /\ TickOnExpiry(k)]_vars
    /\ [](\A k \in Kinds : lpc[k] = "wait" =>
            store[k].closed = store[k].opened /\ repo[k].closed = repo[k].opened)

\* a tick whose operation took time is about to close its handles, and the
\* timer it then makes expires before the clock stops
C32_Witness ==
    \E k \in Kinds :
        /\ lpc[k] = "close"
        /\ ticked[k] # NoTime /\ ticked[k] < now
        /\ ticked[k] >= taskset[k].Interval
        /\ After(k) <= MaxTime

\* ---- C33 -------------------------------------------------------------------
\* the number of calls of TaskStart on the Report of the tick of loop k
Starts(k) == Cardinality({i \in DOMAIN report[k] : report[k][i] = "TaskStart"})

\* C33: in every loop, the tick whose repository loaded has one Report once
\* the loop is past NewReport, and TaskStart is the first call on it, made
\* before the primary operation is called; the Report never has two terminal
\* calls; it has none until the primary operation has returned, and from the
\* closing of the handles on it has exactly one, which is the last call made
\* on it, so the terminal call comes before any Close of the repository or of
\* the storage.
C33_OneReportOneOutcome ==
    \A k \in Kinds :
        /\ Starts(k) <= 1 /\ Len(Terminals(k)) <= 1
        /\ outcome[k].load = "ok" /\ lpc[k] # "report" =>
              /\ Starts(k) = 1
              /\ Head(report[k]) = "TaskStart"
        /\ lpc[k] \in {"load", "report", "op"} => Terminals(k) = <<>> /\ outcome[k].op = ""
        /\ outcome[k].load = "ok" /\ lpc[k] \in {"close", "wait"} =>
              /\ Len(Terminals(k)) = 1
              /\ LastCall(k) = Terminals(k)[1]
        /\ outcome[k].load = "ok" /\ Terminals(k) = <<>> =>
              repo[k].closed = 0 /\ store[k].closed = 0

\* two loops wait for their next tick, each after a tick that loaded its
\* repository and has closed it: one report ended as a warning, the other as
\* failed
C33_Witness ==
    \E k, j \in Kinds :
        /\ lpc[k] = "wait" /\ lpc[j] = "wait"
        /\ Terminals(k) = <<"TaskWarning">> /\ repo[k] = Released
        /\ Terminals(j) = <<"TaskFailed">> /\ repo[j] = Released

\* ---- C34 -------------------------------------------------------------------
\* C34: whenever no handler holds the mutex, the singleton stores a context if
\* and only if its state is RUNNING, and a RUNNING singleton stores a
\* configuration.  Hence stopTasks finds a context to cancel and no handler
\* panics, and a configure request that succeeds launches a service if and
\* only if it found the state RUNNING.
C34_ContextIffRunning ==
    /\ mtx = 0 =>
          /\ schedulerCtx # Nil <=> IsRunning(schedulerState)
          /\ IsRunning(schedulerState) => schedulerConfig # Nil
    /\ ~panicked
    /\ \A c \in Conns :
          /\ pc[c] = "stop_cancel" => schedulerCtx # Nil
          /\ AnsweredAs(c, "configure") /\ response[c] = Ok =>
                ((\E i \in DOMAIN acts[c] : acts[c][i].op = "go") <=> IsRunning(pre[c].state))

\* a stop request has been served on a scheduler that had been started, and
\* the mutex is free: no context is stored and the configuration still is
C34_Witness ==
    /\ mtx = 0
    /\ \E c \in Conns : AnsweredAs(c, "stop") /\ response[c] = Ok
    /\ nextCtx > 0
    /\ schedulerCtx = Nil /\ ~IsRunning(schedulerState)
    /\ schedulerConfig # Nil

\* ---- C35 -------------------------------------------------------------------
\* C35: whenever no handler holds the mutex and the state of the singleton is
\* RUNNING, the stored context is there and Cancel() has not been called on
\* it, so that some scheduler runs on it; this also after a sync task with an
\* unknown direction has returned.
C35_RunningMeansAlive ==
    mtx = 0 /\ IsRunning(schedulerState) =>
        /\ schedulerCtx # Nil
        /\ schedulerCtx \notin cancelled

\* ---- C36 -------------------------------------------------------------------
\* the handler of connection c is at the last statement of configureTasks
Storing(c) == pc[c] = "cfg_store"

\* C36: the stored configuration changes only by the last statement of a
\* configure request that succeeds, which stores what it parsed from its
\* payload; start and stop leave it as they found it, so once a configure has
\* succeeded there is a stored configuration for good.  A start request that
\* finds the state STOPPED after that succeeds, and every service a start
\* launches runs under the configuration that is stored then.
C36_ConfigurationSurvivesStop ==
    /\ [][schedulerConfig' # schedulerConfig =>
            \E c \in Conns :
                /\ Storing(c)
                /\ schedulerConfig' = ParseConfigBytes(request[c].Payload).cfg
                /\ response'[c] = Ok]_vars
    /\ [][\A c \in Conns :
            pc[c] = "start_go" /\ pc'[c] = "start_set" =>
                /\ Len(launched') = Len(launched) + 1
                /\ launched'[Len(launched')].cfg = schedulerConfig
                /\ schedulerConfig # Nil]_vars
    /\ [](configured => schedulerConfig # Nil)
    /\ [](\A c \in Conns :
            /\ AnsweredAs(c, "start") \/ AnsweredAs(c, "stop") => post[c].config = pre[c].config
            /\ AnsweredAs(c, "start") /\ configured /\ ~IsRunning(pre[c].state) =>
                  response[c] = Ok /\ IsRunning(post[c].state))

\* the fourth request, a start, has succeeded on a stopped scheduler; the
\* service it launched is the second one, the first is cancelled, and both
\* run under the stored configuration
C36_Witness ==
    /\ nextID = 4
    /\ \E c \in Conns :
          /\ AnsweredAs(c, "start") /\ response[c] = Ok
          /\ ~IsRunning(pre[c].state)
    /\ Len(launched) = 2
    /\ launched[1].ctx \in cancelled /\ launched[2].ctx \notin cancelled
    /\ launched[1].cfg = schedulerConfig /\ launched[2].cfg = schedulerConfig

\* ---- C37 -------------------------------------------------------------------
\* C37: once the context of the service is done, the select of the service
\* loop takes neither a job-ready event to execute it nor a rollover tick to
\* plan the next day, whatever waits on runq and scheduleq.
C37_NothingRunsAfterCancel ==
    Done(sCtx) => ~ENABLED SvcJob /\ ~ENABLED SvcRollover

\* ---- C38 -------------------------------------------------------------------
\* C38: Stop() is called at most once on the rollover engine and at most once
\* on the job-ready engine.
C38_StopCalledOnce ==
    stops.roll <= 1 /\ stops.job <= 1


\* ---- the hub of the live UI: sseHub, the /events handler and stopHTTP -----
\* everything but the hub: the daemon, its scheduler and the task loops
scheduling == <<shared, mtx, daemon, counters, handlers, runners, svc, stops,
                scheduleq, runq, now, calendar>>

\* StartHTTP has returned: the hub is made, its goroutine runs, the server
\* listens and no request for /events has arrived
InitHub ==
    /\ schedulerCtx = Nil
    /\ schedulerConfig = Nil
    /\ schedulerState = AGENT_SCHEDULER_STOPPED
    /\ mtx = 0
    /\ nextCtx = 0
    /\ cancelled = {}
    /\ launched = <<>>
    /\ exited = {}
    /\ configured = FALSE
    /\ agentCancelled = FALSE
    /\ listenerClosed = FALSE
    /\ panicked = FALSE
    /\ serveErr = Serving
    /\ inflight = 0
    /\ nextID = 0
    /\ pc = [c \in Conns |-> "idle"]
    /\ request = [c \in Conns |-> NoRequest]
    /\ response = [c \in Conns |-> NoResponse]
    /\ schedConfig = [c \in Conns |-> Nil]
    /\ pre = [c \in Conns |-> NoSnapshot]
    /\ post = [c \in Conns |-> NoSnapshot]
    /\ acts = [c \in Conns |-> <<>>]
    /\ taskset = [k \in Kinds |-> NoTask]
    /\ lpc = [k \in Kinds |-> "none"]
    /\ store = [k \in Kinds |-> NoHandle]
    /\ repo = [k \in Kinds |-> NoHandle]
    /\ report = [k \in Kinds |-> <<>>]
    /\ outcome = [k \in Kinds |-> NoOutcome]
    /\ timer = [k \in Kinds |-> NoTime]
    /\ ticked = [k \in Kinds |-> NoTime]
    /\ svc = "none"
    /\ stops = [roll |-> 0, job |-> 0]
    /\ scheduleq = 0
    /\ runq = 0
    /\ now = 0
    /\ snapshot = [k \in Kinds |-> NoTime]
    /\ before = [k \in Kinds |-> NoTime]
    /\ config = [j \in JobNames |-> <<>>]
    /\ started = [roll |-> "", job |-> ""]
    /\ rollover = {}
    /\ ready = <<>>
    /\ ticks = <<>>
    /\ jobs = <<>>
    /\ planned = <<>>
    /\ ran = NoEvent
    /\ armed = 0
    /\ hubpc = "run"
    /\ hubClosed = FALSE
    /\ clients = {}
    /\ closes = [h \in Clients |-> 0]
    /\ queued = [h \in Clients |-> 0]
    /\ hpc = [h \in Clients |-> "none"]
    /\ gone = [h \in Clients |-> FALSE]
    /\ bcast = NoBroadcast
    /\ crashed = FALSE

\* a request for /events arrives while the server accepts; a response writer
\* that is no http.Flusher is refused with a 500, otherwise the handler makes
\* its channel and goes to send it on hub.register
Request(h) ==
    /\ ~crashed
    /\ ~hubClosed
    /\ hpc[h] = "none"
    /\ \E ok \in BOOLEAN :
          hpc' = [hpc EXCEPT ![h] = IF ok THEN "register" ELSE "refused"]
    /\ UNCHANGED <<hubpc, hubClosed, clients, closes, queued, gone, bcast, crashed, scheduling>>

\* case ch := <-h.register of run, the rendezvous with hub.register <- ch of
\* the handler, which then writes the hello event and enters its loop
HubRegister(h) ==
    /\ ~crashed
    /\ hubpc = "run"
    /\ hpc[h] = "register"
    /\ clients' = clients \cup {h}
    /\ hpc' = [hpc EXCEPT ![h] = "stream"]
    /\ UNCHANGED <<hubpc, hubClosed, closes, queued, gone, bcast, crashed, scheduling>>

\* case msg := <-ch of the handler: it takes a message of the buffer and
\* writes it; on a closed and drained channel the receive returns the zero
\* message at once, and that is written too
Receive(h) ==
    /\ ~crashed
    /\ hpc[h] = "stream"
    /\ queued[h] > 0 \/ closes[h] > 0
    /\ queued' = [queued EXCEPT ![h] = IF @ > 0 THEN @ - 1 ELSE @]
    /\ UNCHANGED <<hubpc, hubClosed, clients, closes, hpc, gone, bcast, crashed, scheduling>>

\* the client goes away: the context of its request is done
Disconnect(h) ==
    /\ ~crashed
    /\ hpc[h] \in {"register", "stream"}
    /\ ~gone[h]
    /\ gone' = [gone EXCEPT ![h] = TRUE]
    /\ UNCHANGED <<hubpc, hubClosed, clients, closes, queued, hpc, bcast, crashed, scheduling>>

\* case <-notify of the handler: it returns, and the deferred function goes
\* to send its channel on hub.unregister
Notify(h) ==
    /\ ~crashed
    /\ hpc[h] = "stream"
    /\ gone[h]
    /\ hpc' = [hpc EXCEPT ![h] = "unregister"]
    /\ UNCHANGED <<hubpc, hubClosed, clients, closes, queued, gone, bcast, crashed, scheduling>>

\* case ch := <-h.unregister of run, the rendezvous with the deferred
\* hub.unregister <- ch: the channel leaves the map and is closed
HubUnregister(h) ==
    /\ ~crashed
    /\ hubpc = "run"
    /\ hpc[h] = "unregister"
    /\ clients' = clients \ {h}
    /\ closes' = [closes EXCEPT ![h] = @ + 1]
    /\ hpc' = [hpc EXCEPT ![h] = "done"]
    /\ UNCHANGED <<hubpc, hubClosed, queued, gone, bcast, crashed, scheduling>>

\* the function StartHTTP returns: close(hub.closed), then srv.Shutdown,
\* which closes the listener and leaves the active handlers to themselves
StopHTTP ==
    /\ ~crashed
    /\ hubpc # "none"
    /\ ~hubClosed
    /\ hubClosed' = TRUE
    /\ UNCHANGED <<hubpc, clients, closes, queued, hpc, gone, bcast, crashed, scheduling>>

\* case <-h.closed of run: every channel of the map is closed and deleted,
\* and run returns
HubClose ==
    /\ ~crashed
    /\ hubpc = "run"
    /\ hubClosed
    /\ closes' = [h \in Clients |-> IF h \in clients THEN closes[h] + 1 ELSE closes[h]]
    /\ clients' = {}
    /\ hubpc' = "returned"
    /\ UNCHANGED <<hubClosed, queued, hpc, gone, bcast, crashed, scheduling>>

\* some goroutine calls broadcast: it builds the message and starts to range
\* over h.clients
Broadcast ==
    /\ ~crashed
    /\ hubpc # "none"
    /\ bcast.pc = "idle"
    /\ bcast.calls < MaxBroadcasts
    /\ bcast' = [pc |-> "range", ch |-> 0, seen |-> {}, calls |-> bcast.calls + 1]
    /\ UNCHANGED <<hubpc, hubClosed, clients, closes, queued, hpc, gone, crashed, scheduling>>

\* for ch := range h.clients: the range produces a channel that is in the
\* map now and that it has not produced, or ends and broadcast returns; no
\* lock is held, so run may change the map between two steps of the range
BroadcastRange ==
    /\ ~crashed
    /\ bcast.pc = "range"
    /\ IF clients \ bcast.seen = {}
         THEN bcast' = [bcast EXCEPT !.pc = "idle", !.ch = 0, !.seen = {}]
         ELSE \E ch \in clients \ bcast.seen :
                 bcast' = [bcast EXCEPT !.pc = "send", !.ch = ch, !.seen = @ \cup {ch}]
    /\ UNCHANGED <<hubpc, hubClosed, clients, closes, queued, hpc, gone, crashed, scheduling>>

\* select { case ch <- msg: default: }: the message enters the buffer when
\* there is room and is dropped otherwise; on a closed channel the send
\* panics, and nothing recovers it
BroadcastSend ==
    /\ ~crashed
    /\ bcast.pc = "send"
    /\ IF closes[bcast.ch] > 0
         THEN /\ crashed' = TRUE
              /\ bcast' = [bcast EXCEPT !.pc = "panic"]
              /\ UNCHANGED queued
         ELSE /\ queued' = [queued EXCEPT ![bcast.ch] = IF @ < ChanCap THEN @ + 1 ELSE @]
              /\ bcast' = [bcast EXCEPT !.pc = "range", !.ch = 0]
              /\ UNCHANGED crashed
    /\ UNCHANGED <<hubpc, hubClosed, clients, closes, hpc, gone, scheduling>>

NextHub ==
    \/ \E h \in Clients : Request(h)
    \/ \E h \in Clients : HubRegister(h)
    \/ \E h \in Clients : Receive(h)
    \/ \E h \in Clients : Disconnect(h)
    \/ \E h \in Clients : Notify(h)
    \/ \E h \in Clients : HubUnregister(h)
    \/ StopHTTP
    \/ HubClose
    \/ Broadcast
    \/ BroadcastRange
    \/ BroadcastSend

SpecHub == InitHub /\ [][NextHub]_vars

TypeOKHub ==
    /\ hubpc \in {"none", "run", "returned"}
    /\ hubClosed \in BOOLEAN
    /\ clients \subseteq Clients
    /\ closes \in [Clients -> 0..2]
    /\ queued \in [Clients -> 0..ChanCap]
    /\ hpc \in [Clients -> {"none", "refused", "register", "stream", "unregister", "done"}]
    /\ gone \in [Clients -> BOOLEAN]
    /\ bcast \in [pc : {"idle", "range", "send", "panic"}, ch : 0..NumClients,
                  seen : SUBSET Clients, calls : 0..MaxBroadcasts]
    /\ crashed \in BOOLEAN

\* the scheduling of the goroutines of the live UI: run takes a case of its
\* select that stays ready, a handler and broadcast take their next step,
\* and a client that is connected goes away in the end
FairHub ==
    /\ SpecHub
    /\ \A h \in Clients : WF_vars(HubRegister(h))
    /\ \A h \in Clients : WF_vars(HubUnregister(h))
    /\ \A h \in Clients : WF_vars(Disconnect(h))
    /\ \A h \in Clients : WF_vars(Notify(h))
    /\ WF_vars(HubClose)
    /\ WF_vars(BroadcastRange)
    /\ WF_vars(BroadcastSend)

\* ---- C39 -------------------------------------------------------------------
\* C39: broadcast never sends on a client channel that has been closed,
\* however its steps interleave with run handling an unregister or the
\* closing of the hub.
C39_NoSendOnClosedChannel ==
    ~crashed

\* ---- C40 -------------------------------------------------------------------
\* C40: no client channel is closed twice, the channel of a handler that has
\* returned is closed, and every /events handler that has started ends (or
\* the process has panicked), also when the hub has been closed.
C40_HandlersTerminate ==
    /\ [](\A h \in Clients : closes[h] <= 1)
    /\ [](\A h \in Clients : hpc[h] = "done" => closes[h] = 1)
    /\ \A h \in Clients :
          hpc[h] \in {"register", "stream", "unregister"} ~> (hpc[h] = "done" \/ crashed)

====
